---- MODULE Spec2Model ----
(***************************************************************************)
(* Build queue of agiros_tools_menu.py: the two persisted queue files, the *)
(* in-memory MenuState queue, the queue-execution pass of                  *)
(* manage_build_queue and the build loop of run_debian_build and           *)
(* run_rpm_build; the failure log fail.log and the fallback version        *)
(* search of agiros_oob_builder_procedural.py with its run() of a child    *)
(* process; the resolvers of tracks.yaml and the writers of                *)
(* debian/gbp.conf of gbpconf_generator.py and of the agirosdebian         *)
(* generator of bloom.                                                     *)
(*                                                                         *)
(* Text is a sequence of tokens (strings).  A package name, a path and a   *)
(* line of the line file are all token sequences, so that what             *)
(* _write_queue_file formats is parsed back by load_queue_from_file by     *)
(* looking at the tokens, exactly as the code looks at the characters.     *)
(***************************************************************************)
EXTENDS Integers, Sequences, FiniteSets, TLC

VARIABLES
    queue_file,        \* the line file: a sequence of lines
    queue_meta_file,   \* the JSON metadata file: [ok, entries]
    build_queue,       \* MenuState.build_queue: sequence of BuildTask
    queue_packages,    \* MenuState.queue_packages: sequence of names
    package_status,    \* MenuState.package_status: name -> BOOLEAN
    pc,                \* "menu" | "task" | "confirm" (position in manage_build_queue)
    pkg_idx,           \* index in queue_packages of the package being executed
    task_idx,          \* index in tasks_for_pkg of the task to execute next
    failed_packages,   \* failed_packages of the running pass
    aborted,           \* aborted of the running pass
    executed,          \* history: the execute_build calls of the current/last pass
    start_status,      \* history: package_status when the pass started
    last,              \* history: the last completed menu operation
    disk,              \* which of the two queue files exist and can be read
    fail_log,          \* fail.log: a sequence of lines
    oob,               \* the run of agiros_oob_builder_procedural.py main()
    proc,              \* one call of run(): the subprocess and the loop reading it
    gbp,               \* one resolution of a tracks descriptor into debian/gbp.conf
    build              \* one call of run_debian_build or run_rpm_build of the menu

vars == <<queue_file, queue_meta_file, build_queue, queue_packages, package_status,
          pc, pkg_idx, task_idx, failed_packages, aborted, executed, start_status, last,
          disk, fail_log, oob, proc, gbp, build>>

----------------------------------------------------------------------------
(* Bounds and input domains *)

\* Appending a task with a new identity key is offered while the queue holds
\* fewer than MaxTasks tasks.
MaxTasks == 2

NameA == <<"a">>
NameB == <<"b">>
\* a directory name that ends with the completion marker character
NameAHash == <<"a", "#">>
Names == {NameA, NameB, NameAHash}

P1 == <<"/p1">>
P2 == <<"/p2">>
Paths == {P1, P2}

Kinds == {"debian", "rpm"}

ExtraArgs == {<< >>, <<"-x">>}

\* code_dir of MenuState, an absolute resolved directory
code_dir == <<"/code">>

----------------------------------------------------------------------------
(* Text helpers *)

Last(s) == s[Len(s)]

Front(s) == SubSeq(s, 1, Len(s) - 1)

RECURSIVE Strip(_)
\* str.strip(): whitespace removed at both ends
Strip(s) ==
    IF s = << >> THEN s
    ELSE IF Head(s) = " " THEN Strip(Tail(s))
    ELSE IF Last(s) = " " THEN Strip(Front(s))
    ELSE s

\* Path(p).expanduser().resolve() on an absolute path: a trailing "/." is dropped
Resolve(p) ==
    IF p # << >> /\ Last(p) = "/." THEN Front(p) ELSE p

\* self.code_dir / pkg
JoinPath(dir, name) == dir \o <<"/">> \o name

SeqToSet(s) == {s[k] : k \in 1..Len(s)}

RECURSIVE SelectSeq2(_, _)
\* [x for x in s if x.display_name == pkg]
SelectSeq2(s, pkg) ==
    IF s = << >> THEN << >>
    ELSE IF Head(s).display_name = pkg
         THEN <<Head(s)>> \o SelectSeq2(Tail(s), pkg)
         ELSE SelectSeq2(Tail(s), pkg)

----------------------------------------------------------------------------
(* dict helpers: package_status is a function, ordered dicts are sequences *)

EmptyStatus == [n \in {} |-> FALSE]

\* status.get(name, False)
StatusGet(status, name) ==
    IF name \in DOMAIN status THEN status[name] ELSE FALSE

\* status[name] = value
StatusPut(status, name, value) ==
    [n \in (DOMAIN status) \cup {name} |-> IF n = name THEN value ELSE status[n]]

\* status.pop(name, None)
StatusPop(status, name) ==
    [n \in (DOMAIN status) \ {name} |-> status[n]]

\* index of key in an ordered dict of records with field k, 0 when absent
KindIndex(kinds, kind) ==
    IF \E x \in 1..Len(kinds) : kinds[x].kind = kind
    THEN CHOOSE x \in 1..Len(kinds) : kinds[x].kind = kind
    ELSE 0

\* kinds[kind] = {"extra_args": extra}: an existing key keeps its position
KindsPut(kinds, kind, extra) ==
    LET x == KindIndex(kinds, kind) IN
    IF x = 0 THEN Append(kinds, [kind |-> kind, extra_args |-> extra])
    ELSE [kinds EXCEPT ![x] = [kind |-> kind, extra_args |-> extra]]

RECURSIVE KindsUpdate(_, _)
\* merged_kinds.update(other)
KindsUpdate(kinds, other) ==
    IF other = << >> THEN kinds
    ELSE KindsUpdate(KindsPut(kinds, Head(other).kind, Head(other).extra_args), Tail(other))

\* index of the entry of name in the metadata object, 0 when absent
MetaIndex(entries, name) ==
    IF \E x \in 1..Len(entries) : entries[x].name = name
    THEN CHOOSE x \in 1..Len(entries) : entries[x].name = name
    ELSE 0

\* meta[name] = {"path": path, "kinds": kinds}
MetaPut(entries, name, path, kinds) ==
    LET x == MetaIndex(entries, name)
        e == [name |-> name, path |-> path, kinds |-> kinds]
    IN  IF x = 0 THEN Append(entries, e) ELSE [entries EXCEPT ![x] = e]

----------------------------------------------------------------------------
(* The line file, read: MenuState.load_queue_from_file *)

\* Fields of a legacy JSON-object line, one token per "key": value pair
JsonNameField == ("name=a" :> NameA) @@ ("name=b" :> NameB) @@ ("name=a#" :> NameAHash)
JsonCompletedField == ("completed=true" :> TRUE) @@ ("completed=false" :> FALSE)
JsonKindField == ("kind=debian" :> "debian") @@ ("kind=rpm" :> "rpm")
JsonPathField == ("path=/p1" :> P1) @@ ("path=/p2" :> P2) @@ ("path=/p2/." :> <<"/p2", "/.">>)
JsonExtraField == ("extra_args=-x" :> <<"-x">>) @@ ("extra_args=-y" :> <<"-y">>)
JsonFields ==
    DOMAIN JsonNameField \cup DOMAIN JsonCompletedField \cup DOMAIN JsonKindField
        \cup DOMAIN JsonPathField \cup DOMAIN JsonExtraField

\* parsed.get(key, default) over the object's pairs; the last pair of a key wins
JsonGet(line, field, default) ==
    LET hits == {x \in 1..Len(line) : line[x] \in DOMAIN field} IN
    IF hits = {} THEN default
    ELSE field[line[CHOOSE x \in hits : \A y \in hits : y <= x]]

\* json.loads(line) gives a dict: the text is "{" pairs "}"
JsonIsDict(line) ==
    /\ Len(line) >= 2
    /\ Head(line) = "{"
    /\ Last(line) = "}"
    /\ \A x \in 2..(Len(line) - 1) : line[x] \in JsonFields

\* One line of the line file, as lines 285-319 read it
parse_line(raw_line) ==
    LET line == Strip(raw_line)
        is_dict == line # << >> /\ Head(line) = "{" /\ Last(line) = "}" /\ JsonIsDict(line)
        json_name == JsonGet(line, JsonNameField, << >>)
    IN  IF line = << >> THEN
            [skip |-> TRUE, legacy |-> FALSE, name |-> << >>, completed |-> FALSE,
             kind |-> "", path |-> << >>, extra_args |-> << >>]
        ELSE IF is_dict /\ json_name # << >> THEN
            [skip |-> Strip(json_name) = << >>, legacy |-> TRUE,
             name |-> Strip(json_name),
             completed |-> JsonGet(line, JsonCompletedField, FALSE),
             kind |-> JsonGet(line, JsonKindField, "debian"),
             path |-> JsonGet(line, JsonPathField, << >>),
             extra_args |-> JsonGet(line, JsonExtraField, << >>)]
        ELSE IF Last(line) = "#" THEN
            [skip |-> Strip(Front(line)) = << >>, legacy |-> FALSE,
             name |-> Strip(Front(line)), completed |-> TRUE,
             kind |-> "", path |-> << >>, extra_args |-> << >>]
        ELSE
            [skip |-> FALSE, legacy |-> FALSE, name |-> line, completed |-> FALSE,
             kind |-> "", path |-> << >>, extra_args |-> << >>]

\* legacy_meta.setdefault(name, ...), entry["path"], kinds_dict[kind] (lines 307-312)
legacy_put(legacy_meta, p) ==
    LET x == MetaIndex(legacy_meta, p.name) IN
    IF x = 0 THEN
        Append(legacy_meta, [name |-> p.name, path |-> p.path,
                             kinds |-> <<[kind |-> p.kind, extra_args |-> p.extra_args]>>])
    ELSE
        [legacy_meta EXCEPT ![x] =
            [name |-> p.name,
             path |-> IF p.path # << >> THEN p.path ELSE @.path,
             kinds |-> KindsPut(@.kinds, p.kind, p.extra_args)]]

RECURSIVE read_lines(_, _)
\* The loop over the line file (lines 283-322): acc = [packages, status, legacy_meta]
read_lines(lines, acc) ==
    IF lines = << >> THEN acc
    ELSE
        LET p == parse_line(Head(lines))
            legacy_meta == IF p.legacy THEN legacy_put(acc.legacy_meta, p)
                           ELSE acc.legacy_meta
        IN  IF p.skip THEN
                read_lines(Tail(lines), [acc EXCEPT !.legacy_meta = legacy_meta])
            ELSE
                read_lines(Tail(lines),
                    [packages |-> IF p.name \in SeqToSet(acc.packages) THEN acc.packages
                                  ELSE Append(acc.packages, p.name),
                     status |-> StatusPut(acc.status, p.name,
                                          StatusGet(acc.status, p.name) \/ p.completed),
                     legacy_meta |-> legacy_meta])

\* The metadata file, read (lines 324-330): any error or a non-dict gives {}
read_meta(meta_file) ==
    IF meta_file.ok THEN meta_file.entries ELSE << >>

RECURSIVE merge_legacy_meta_wins(_, _)
\* Mutant: an entry of the metadata file is kept as it is, the legacy line
\* only fills in what the entry lacks
merge_legacy_meta_wins(meta, legacy_meta) ==
    IF legacy_meta = << >> THEN meta
    ELSE
        LET info == Head(legacy_meta)
            x == MetaIndex(meta, info.name)
            merged_path == IF x = 0 THEN << >> ELSE meta[x].path
            path_to_use == IF merged_path # << >> THEN merged_path ELSE info.path
            existing_kinds == IF x = 0 THEN << >> ELSE meta[x].kinds
            merged_kinds == KindsUpdate(info.kinds, existing_kinds)
        IN  merge_legacy_meta_wins(MetaPut(meta, info.name, path_to_use, merged_kinds),
                                   Tail(legacy_meta))

RECURSIVE merge_legacy(_, _)
\* Legacy entries merged into the metadata (lines 332-345)
merge_legacy(meta, legacy_meta) ==
    IF legacy_meta = << >> THEN meta
    ELSE
        LET info == Head(legacy_meta)
            x == MetaIndex(meta, info.name)
            merged_path == IF x = 0 THEN << >> ELSE meta[x].path
            path_to_use == IF info.path # << >> THEN info.path ELSE merged_path
            existing_kinds == IF x = 0 THEN << >> ELSE meta[x].kinds
            merged_kinds == KindsUpdate(existing_kinds, info.kinds)
        IN  merge_legacy(MetaPut(meta, info.name, path_to_use, merged_kinds),
                         Tail(legacy_meta))

\* for kind, payload in kinds_info.items(): tasks.append(...) (lines 367-375)
tasks_of_kinds(pkg, base_path, kinds_info) ==
    [x \in 1..Len(kinds_info) |->
        [display_name |-> pkg, path |-> base_path,
         kind |-> kinds_info[x].kind, extra_args |-> kinds_info[x].extra_args]]

\* Mutant: the task made up for a package without kinds is an rpm task
tasks_of_package_default_rpm(pkg, meta) ==
    LET x == MetaIndex(meta, pkg)
        base_path_str == IF x = 0 THEN << >> ELSE meta[x].path
        kinds_info == IF x = 0 THEN << >> ELSE meta[x].kinds
        base_path == IF base_path_str # << >> THEN Resolve(base_path_str)
                     ELSE Resolve(JoinPath(code_dir, pkg))
    IN  IF kinds_info = << >> THEN
            <<[display_name |-> pkg, path |-> base_path, kind |-> "rpm",
               extra_args |-> << >>]>>
        ELSE tasks_of_kinds(pkg, base_path, kinds_info)

\* Mutant: no task is made up for a package without kinds
tasks_of_package_no_default(pkg, meta) ==
    LET x == MetaIndex(meta, pkg)
        base_path_str == IF x = 0 THEN << >> ELSE meta[x].path
        kinds_info == IF x = 0 THEN << >> ELSE meta[x].kinds
        base_path == IF base_path_str # << >> THEN Resolve(base_path_str)
                     ELSE Resolve(JoinPath(code_dir, pkg))
    IN  tasks_of_kinds(pkg, base_path, kinds_info)

\* The tasks of one package (lines 349-375)
tasks_of_package(pkg, meta) ==
    LET x == MetaIndex(meta, pkg)
        base_path_str == IF x = 0 THEN << >> ELSE meta[x].path
        kinds_info == IF x = 0 THEN << >> ELSE meta[x].kinds
        base_path == IF base_path_str # << >> THEN Resolve(base_path_str)
                     ELSE Resolve(JoinPath(code_dir, pkg))
    IN  IF kinds_info = << >> THEN
            <<[display_name |-> pkg, path |-> base_path, kind |-> "debian",
               extra_args |-> << >>]>>
        ELSE tasks_of_kinds(pkg, base_path, kinds_info)

\* Mutant: the packages that only the metadata names get their tasks too
build_tasks_of_metadata_too(packages, meta) ==
    LET RECURSIVE of(_)
        of(ps) == IF ps = << >> THEN << >>
                  ELSE tasks_of_package(Head(ps), meta) \o of(Tail(ps))
        only_meta == SelectSeq([x \in 1..Len(meta) |-> meta[x].name],
                               LAMBDA n : n \notin SeqToSet(packages))
    IN  of(packages \o only_meta)

RECURSIVE build_tasks(_, _)
\* for pkg in packages: ... (lines 347-375)
build_tasks(packages, meta) ==
    IF packages = << >> THEN << >>
    ELSE tasks_of_package(Head(packages), meta) \o build_tasks(Tail(packages), meta)

\* MenuState.load_queue_from_file: [packages, status, tasks]
load_queue_from_file(lines, meta_file) ==
    LET read == read_lines(lines, [packages |-> << >>, status |-> EmptyStatus,
                                    legacy_meta |-> << >>])
        meta == merge_legacy(read_meta(meta_file), read.legacy_meta)
    IN  [packages |-> read.packages,
         status |-> read.status,
         tasks |-> build_tasks(read.packages, meta)]

\* Both queue files exist and the line file is decodable text
OnDisk == [queue_file |-> "readable", queue_meta_file |-> "present"]

\* What a read of a metadata file that is not there gives: an exception, {}
NoMetaFile == [ok |-> FALSE, entries |-> << >>]

\* MenuState.ensure_queue_file: a missing line file is created empty, a
\* missing metadata file is created holding "{}"
ensure_queue_file(d, lines, meta_file) ==
    [disk |-> [queue_file |-> IF d.queue_file = "absent" THEN "readable"
                              ELSE d.queue_file,
               queue_meta_file |-> "present"],
     queue_file |-> IF d.queue_file = "absent" THEN << >> ELSE lines,
     queue_meta_file |-> IF d.queue_meta_file = "absent"
                         THEN [ok |-> TRUE, entries |-> << >>] ELSE meta_file]

\* MenuState.load_queue_from_file on the files as they are on disk: a missing
\* line file gives the empty queue (lines 275-279), a line file that cannot
\* be read raises out of the loop of line 283, which no handler encloses
reload(d, lines, meta_file) ==
    IF d.queue_file = "absent" THEN
        [raised |-> FALSE, packages |-> << >>, status |-> EmptyStatus, tasks |-> << >>]
    ELSE IF d.queue_file = "unreadable" THEN
        [raised |-> TRUE, packages |-> << >>, status |-> EmptyStatus, tasks |-> << >>]
    ELSE
        [raised |-> FALSE]
            @@ load_queue_from_file(lines,
                   IF d.queue_meta_file = "absent" THEN NoMetaFile ELSE meta_file)

----------------------------------------------------------------------------
(* The files, written: save_queue, append_task_to_queue, clear_queue *)

\* Mutant: the line file is written without completion markers
write_queue_file_no_marker(packages, status) ==
    [x \in 1..Len(packages) |-> packages[x]]

\* MenuState._write_queue_file: one line per package, "#" after a completed one
write_queue_file(packages, status) ==
    [x \in 1..Len(packages) |->
        packages[x] \o (IF StatusGet(status, packages[x]) THEN <<"#">> ELSE << >>)]

RECURSIVE meta_from_tasks(_, _)
\* The loop of _write_meta_from_tasks (lines 440-445)
meta_from_tasks(tasks, meta) ==
    IF tasks = << >> THEN meta
    ELSE
        LET task == Head(tasks)
            x == MetaIndex(meta, task.display_name)
            kinds == IF x = 0 THEN << >> ELSE meta[x].kinds
        IN  meta_from_tasks(Tail(tasks),
                MetaPut(meta, task.display_name, task.path,
                        KindsPut(kinds, task.kind, task.extra_args)))

\* MenuState._write_meta_from_tasks: the JSON text of the metadata object
write_meta_from_tasks(tasks) ==
    [ok |-> TRUE, entries |-> meta_from_tasks(tasks, << >>)]

RECURSIVE unique_tasks(_, _)
\* The de-duplication loop of save_queue (lines 384-392)
unique_tasks(tasks, seen) ==
    IF tasks = << >> THEN << >>
    ELSE
        LET key == <<Head(tasks).display_name, Head(tasks).kind>> IN
        IF key \in seen THEN unique_tasks(Tail(tasks), seen)
        ELSE <<Head(tasks)>> \o unique_tasks(Tail(tasks), seen \cup {key})

RECURSIVE extend_order(_, _)
\* for task in tasks: package_order.append(...) when missing (lines 394-396)
extend_order(package_order, tasks) ==
    IF tasks = << >> THEN package_order
    ELSE extend_order(
            IF Head(tasks).display_name \in SeqToSet(package_order) THEN package_order
            ELSE Append(package_order, Head(tasks).display_name),
            Tail(tasks))

\* Mutant: packages without tasks stay listed
keep_with_tasks_keeps_all(package_order, tasks) == package_order

RECURSIVE keep_with_tasks(_, _)
\* Packages without tasks are removed (line 398)
keep_with_tasks(package_order, tasks) ==
    IF package_order = << >> THEN << >>
    ELSE (IF \E x \in 1..Len(tasks) : tasks[x].display_name = Head(package_order)
          THEN <<Head(package_order)>> ELSE << >>)
         \o keep_with_tasks(Tail(package_order), tasks)

\* MenuState.save_queue: the new in-memory queue and the two files
save_queue(tasks_in, packages, status_in) ==
    LET tasks == unique_tasks(tasks_in, {})
        package_order == keep_with_tasks(extend_order(packages, tasks), tasks)
        status == [n \in SeqToSet(package_order) |-> StatusGet(status_in, n)]
    IN  [queue_packages |-> package_order,
         package_status |-> status,
         build_queue |-> tasks,
         queue_file |-> write_queue_file(package_order, status),
         queue_meta_file |-> write_meta_from_tasks(tasks),
         disk |-> OnDisk]

\* index of the first task with the identity key of task, 0 when absent
task_index(tasks, task) ==
    IF \E x \in 1..Len(tasks) :
          tasks[x].display_name = task.display_name /\ tasks[x].kind = task.kind
    THEN CHOOSE x \in 1..Len(tasks) :
          /\ tasks[x].display_name = task.display_name /\ tasks[x].kind = task.kind
          /\ \A y \in 1..(x - 1) :
                ~(tasks[y].display_name = task.display_name /\ tasks[y].kind = task.kind)
    ELSE 0

\* Mutant: the search for an existing task with the same key is missing
put_task_always_appends(tasks, task) == Append(tasks, task)

\* The update-or-append of append_task_to_queue (lines 408-416)
put_task(tasks, task) ==
    LET x == task_index(tasks, task) IN
    IF x = 0 THEN Append(tasks, task)
    ELSE [tasks EXCEPT ![x] = [@ EXCEPT !.path = task.path,
                                        !.extra_args = task.extra_args]]

\* The completion flag append gives the package (line 420)
flag_after_append(status, name) == StatusPut(status, name, FALSE)

\* MenuState.append_task_to_queue
append_task_to_queue(tasks, packages, status, task) ==
    save_queue(put_task(tasks, task),
               IF task.display_name \in SeqToSet(packages) THEN packages
               ELSE Append(packages, task.display_name),
               flag_after_append(status, task.display_name))

\* Mutant: clearing removes the two files
clear_queue_unlinks ==
    [queue_packages |-> << >>,
     package_status |-> EmptyStatus,
     build_queue |-> << >>,
     queue_file |-> << >>,
     queue_meta_file |-> NoMetaFile,
     disk |-> [queue_file |-> "absent", queue_meta_file |-> "absent"]]

\* MenuState.clear_queue: both files are made if missing, then overwritten
clear_queue ==
    [queue_packages |-> << >>,
     package_status |-> EmptyStatus,
     build_queue |-> << >>,
     queue_file |-> << >>,
     queue_meta_file |-> [ok |-> TRUE, entries |-> << >>],
     disk |-> OnDisk]

\* Mutant: the tasks of the removed package stay in the task list
remove_package_keeps_tasks(tasks, packages, status, idx) ==
    LET removed_pkg == packages[idx]
        rest == [x \in 1..(Len(packages) - 1) |->
                    IF x < idx THEN packages[x] ELSE packages[x + 1]]
    IN  save_queue(tasks, rest, StatusPop(status, removed_pkg))

\* Removal of the package at index idx (lines 857-861)
remove_package(tasks, packages, status, idx) ==
    LET removed_pkg == packages[idx]
        rest == [x \in 1..(Len(packages) - 1) |->
                    IF x < idx THEN packages[x] ELSE packages[x + 1]]
    IN  save_queue(SelectSeq(tasks, LAMBDA t : t.display_name # removed_pkg),
                   rest, StatusPop(status, removed_pkg))

----------------------------------------------------------------------------
(* The queue-execution pass of manage_build_queue (lines 872-908) *)

ExitCodes == {0, 1}

NoTask == [display_name |-> << >>, path |-> << >>, kind |-> "", extra_args |-> << >>]

\* Mutant: the tasks of the package are taken last to first
tasks_for_pkg_reversed(tasks, pkg) ==
    LET sel == SelectSeq2(tasks, pkg) IN
    [x \in 1..Len(sel) |-> sel[Len(sel) + 1 - x]]

\* tasks_for_pkg (line 883)
tasks_for_pkg(tasks, pkg) == SelectSeq2(tasks, pkg)

\* Mutant: the loop does not look at the completion flag
skip_package_ignoring_flag(tasks, status, pkg) ==
    tasks_for_pkg(tasks, pkg) = << >>

\* A package the loop passes over (lines 884-888)
skip_package(tasks, status, pkg) ==
    tasks_for_pkg(tasks, pkg) = << >> \/ StatusGet(status, pkg)

\* Index of the first package at or after from that the loop executes, 0 if none
next_package(tasks, packages, status, from) ==
    LET todo == {x \in from..Len(packages) : ~skip_package(tasks, status, packages[x])} IN
    IF todo = {} THEN 0 ELSE CHOOSE x \in todo : \A y \in todo : x <= y

\* execute_build: success of one task, rc the exit code of its build (lines 815-828)
execute_build(task, rc) ==
    IF task.kind = "debian" THEN rc = 0
    ELSE IF task.kind = "rpm" THEN rc = 0
    ELSE FALSE

\* The task executed after a successful one, 0 when the package is done (line 890)
next_task(tasks, idx) == IF idx < Len(tasks) THEN idx + 1 ELSE 0

\* Mutant: the success branch marks the package whatever happened
status_after_package_always_done(status, pkg, package_failed) ==
    StatusPut(status, pkg, TRUE)

\* The flag a package gets when its loop ends (lines 894-901)
status_after_package(status, pkg, package_failed) ==
    StatusPut(status, pkg, ~package_failed)

\* Mutant: the break after a declined confirmation is missing
halts_pass_never(is_aborted) == FALSE

\* Whether the loop over the packages is left (the break of lines 897-899)
halts_pass(is_aborted) == is_aborted

\* The in-memory queue and the files as an operation that saves leaves them
Install(q) ==
    /\ build_queue' = q.build_queue
    /\ queue_packages' = q.queue_packages
    /\ package_status' = q.package_status
    /\ queue_file' = q.queue_file
    /\ queue_meta_file' = q.queue_meta_file
    /\ disk' = q.disk

\* The loop moves on from index from: to the next package, or past the last
\* one to save_queue (line 902) and back to the menu
Continue(from, status, is_aborted) ==
    LET n == IF is_aborted THEN 0
             ELSE next_package(build_queue, queue_packages, status, from)
    IN  IF n # 0 THEN
            /\ pc' = "task"
            /\ pkg_idx' = n
            /\ task_idx' = 1
            /\ package_status' = status
            /\ last' = last
            /\ UNCHANGED <<queue_file, queue_meta_file, build_queue, queue_packages, disk>>
        ELSE
            /\ pc' = "menu"
            /\ pkg_idx' = 0
            /\ task_idx' = 0
            /\ Install(save_queue(build_queue, queue_packages, status))
            /\ last' = [op |-> "pass", task |-> NoTask]

\* The operator picks "execute queue": the loop top reloads, then lines 873-881
StartPassOn(m) ==
    /\ ~m.raised
    /\ m.packages # << >>
    /\ \E x \in 1..Len(m.packages) : ~StatusGet(m.status, m.packages[x])
    /\ build_queue' = m.tasks
    /\ queue_packages' = m.packages
    /\ package_status' = m.status
    /\ start_status' = m.status
    /\ executed' = << >>
    /\ failed_packages' = << >>
    /\ aborted' = FALSE
    /\ pc' = "task"
    /\ pkg_idx' = next_package(m.tasks, m.packages, m.status, 1)
    /\ task_idx' = 1
    /\ last' = [op |-> "start", task |-> NoTask]
    /\ UNCHANGED <<queue_file, queue_meta_file, disk, fail_log, oob, proc, gbp, build>>

\* with m the queue that the reload of the loop top gives
StartPass ==
    /\ pc = "menu"
    /\ StartPassOn(reload(disk, queue_file, queue_meta_file))

\* One execute_build call of the inner loop (lines 890-901)
ExecuteBuild ==
    /\ pc = "task"
    /\ \E rc \in ExitCodes :
        LET pkg == queue_packages[pkg_idx]
            tasks == tasks_for_pkg(build_queue, pkg)
            task == tasks[task_idx]
            success == execute_build(task, rc)
            nxt == next_task(tasks, task_idx)
        IN  /\ executed' = Append(executed, [pkg |-> pkg, kind |-> task.kind, ok |-> success])
            /\ UNCHANGED <<start_status, aborted, fail_log, oob, proc, gbp, build>>
            /\ IF ~success THEN
                    /\ failed_packages' = Append(failed_packages, pkg)
                    /\ package_status' = status_after_package(package_status, pkg, TRUE)
                    /\ pc' = "confirm"
                    /\ UNCHANGED <<queue_file, queue_meta_file, build_queue, queue_packages,
                                   pkg_idx, task_idx, last, disk>>
               ELSE IF nxt # 0 THEN
                    /\ task_idx' = nxt
                    /\ UNCHANGED <<queue_file, queue_meta_file, build_queue, queue_packages,
                                   package_status, pc, pkg_idx, failed_packages, last, disk>>
               ELSE
                    /\ failed_packages' = failed_packages
                    /\ Continue(pkg_idx + 1,
                                status_after_package(package_status, pkg, FALSE), FALSE)

\* The operator answers "continue with the remaining packages?" (lines 897-899)
AskContinue ==
    /\ pc = "confirm"
    /\ \E answer \in BOOLEAN :
        /\ aborted' = ~answer
        /\ Continue(pkg_idx + 1, package_status, halts_pass(~answer))
        /\ UNCHANGED <<executed, start_status, failed_packages, fail_log, oob, proc, gbp, build>>

\* The directory of the task is missing: Popen(cwd=path) of run_stream raises
\* FileNotFoundError (lines 95-102), which nothing between run_stream and
\* main() catches (lines 755, 775, 784, 889, 1084), so the loop over the
\* packages is left before save_queue.  An rpm task built without
\* rpmbuild_any.sh does not get that far: it finds no rpm/*.spec and returns 1
\* (lines 799-803), which is ExecuteBuild with a non-zero exit code.
BuildRaises ==
    /\ pc = "task"
    /\ LET task == tasks_for_pkg(build_queue, queue_packages[pkg_idx])[task_idx] IN
        /\ task.kind \in {"debian", "rpm"}
        /\ last' = [op |-> "missing_dir", task |-> task]
    /\ pc' = "raised"
    /\ UNCHANGED <<queue_file, queue_meta_file, build_queue, queue_packages,
                   package_status, pkg_idx, task_idx, failed_packages, aborted,
                   executed, start_status, disk, fail_log, oob, proc, gbp, build>>

----------------------------------------------------------------------------
(* The other menu operations; each starts with the reload of the loop top *)

\* What every operation but the pass leaves of the pass
NoPass ==
    /\ pc' = "menu"
    /\ pkg_idx' = 0
    /\ task_idx' = 0
    /\ failed_packages' = << >>
    /\ aborted' = FALSE
    /\ executed' = << >>
    /\ start_status' = EmptyStatus
    /\ UNCHANGED <<fail_log, oob, proc, gbp, build>>

\* The tasks the operator adds: a package at either of two places with its
\* build arguments, and a package whose directory name ends with "#"
AppendInputs ==
    {t \in [display_name : {NameA, NameB}, path : Paths, kind : Kinds,
             extra_args : ExtraArgs] : (t.path = P1) = (t.extra_args = << >>)}
    \cup {[display_name |-> NameAHash, path |-> P1, kind |-> "debian",
            extra_args |-> << >>]}

\* A new identity key is accepted while the queue is below its bound
WithinBound(tasks, task) ==
    task_index(tasks, task) # 0 \/ Len(tasks) < MaxTasks

\* The loaded queue m becomes the in-memory queue (lines 377-379)
Loads(m) ==
    /\ ~m.raised
    /\ build_queue' = m.tasks
    /\ queue_packages' = m.packages
    /\ package_status' = m.status

\* state.load_queue_from_file() at the top of the menu loop (line 833)
MenuLoad ==
    /\ pc = "menu"
    /\ Loads(reload(disk, queue_file, queue_meta_file))
    /\ last' = [op |-> "load", task |-> NoTask]
    /\ NoPass
    /\ UNCHANGED <<queue_file, queue_meta_file, disk>>

\* "add task" of the build menu (lines 863-871)
MenuAppendOn(m) ==
    \E task \in AppendInputs :
        /\ ~m.raised
        /\ WithinBound(m.tasks, task)
        /\ Install(append_task_to_queue(m.tasks, m.packages, m.status, task))
        /\ last' = [op |-> "append", task |-> task]

\* with m the queue that the reload of the loop top gives
MenuAppend ==
    /\ pc = "menu"
    /\ MenuAppendOn(reload(disk, queue_file, queue_meta_file))
    /\ NoPass

\* append of the bloom menu, on the in-memory queue as it is (lines 709-725)
BloomAppend ==
    /\ pc = "menu"
    /\ \E task \in AppendInputs :
        /\ WithinBound(build_queue, task)
        /\ Install(append_task_to_queue(build_queue, queue_packages, package_status, task))
        /\ last' = [op |-> "bloom_append", task |-> task]
    /\ NoPass

\* "remove package" of the queue view (lines 853-862)
MenuRemoveOn(m) ==
    \E idx \in 1..Len(m.packages) :
        /\ ~m.raised
        /\ Install(remove_package(m.tasks, m.packages, m.status, idx))
        /\ last' = [op |-> "remove", task |-> [NoTask EXCEPT !.display_name = m.packages[idx]]]

\* with m the queue that the reload of the loop top gives
MenuRemove ==
    /\ pc = "menu"
    /\ MenuRemoveOn(reload(disk, queue_file, queue_meta_file))
    /\ NoPass

\* "clear queue" (lines 909-911), after the reload of the loop top
MenuClear ==
    /\ pc = "menu"
    /\ ~reload(disk, queue_file, queue_meta_file).raised
    /\ Install(clear_queue)
    /\ last' = [op |-> "clear", task |-> NoTask]
    /\ NoPass

----------------------------------------------------------------------------
(* External edits of the queue files between two menu operations *)

\* What somebody editing or deleting the files by hand leaves behind
HandEdits ==
    { [disk |-> [queue_file |-> "absent", queue_meta_file |-> "absent"],
       lines |-> << >>, meta |-> NoMetaFile],
      [disk |-> [queue_file |-> "unreadable", queue_meta_file |-> "present"],
       lines |-> << >>, meta |-> [ok |-> TRUE, entries |-> << >>]],
      [disk |-> OnDisk,
       lines |-> << <<"b", "#">>, <<"a">>, <<"b">> >>,
       meta |-> [ok |-> TRUE, entries |->
                   << [name |-> NameA, path |-> P2,
                       kinds |-> <<[kind |-> "rpm", extra_args |-> <<"-x">>]>>] >>]] }

\* The files are edited while the program waits at a menu
HandEdit ==
    /\ pc = "menu"
    /\ \E e \in HandEdits :
        /\ <<e.disk, e.lines, e.meta>> # <<disk, queue_file, queue_meta_file>>
        /\ disk' = e.disk
        /\ queue_file' = e.lines
        /\ queue_meta_file' = e.meta
    /\ last' = [op |-> "hand_edit", task |-> NoTask]
    /\ UNCHANGED <<build_queue, queue_packages, package_status, pc, pkg_idx, task_idx,
                   failed_packages, aborted, executed, start_status, fail_log, oob, proc, gbp, build>>

\* A load of a line file that cannot be read: the exception leaves
\* load_queue_from_file and its callers (lines 163, 283, 833)
LoadRaises ==
    /\ pc \in {"new", "menu"}
    /\ reload(disk, queue_file, queue_meta_file).raised
    /\ pc' = "raised"
    /\ UNCHANGED <<queue_file, queue_meta_file, build_queue, queue_packages,
                   package_status, pkg_idx, task_idx, failed_packages, aborted,
                   executed, start_status, last, disk, fail_log, oob, proc, gbp, build>>

----------------------------------------------------------------------------
(* agiros_oob_builder_procedural.py: main() writing fail.log *)

\* --openeuler-default and --openeuler-fallback as given on the command line
OeDefaults == {"24", "22"}
OeFallbacks ==
    { << >>, <<"22", "23">>, <<"22", "23", "24">>, <<"23", "23">>, <<"24", "22", "24">> }

\* The package directories of release_dir, in sorted order (lines 156-163)
OobPkgs == <<"pkgA", "pkgB">>

\* Output lines of a bloom run; the first holds "No agirosdep rule for"
RuleLine == "No agirosdep rule for x"
NoiseLine == "Continue [Y/n]?"

\* "No agirosdep rule for" in l
HasMarker(l) == l = RuleLine

\* What run() gives for one command (lines 28-51): the exit code and, when it
\* is not zero, the captured output; or Popen raises
RunOutcomes(dry_run) ==
    IF dry_run THEN {[raised |-> FALSE, rc |-> 0, out_lines |-> << >>]}
    ELSE { [raised |-> FALSE, rc |-> 0, out_lines |-> <<NoiseLine>>],
           [raised |-> FALSE, rc |-> 1, out_lines |-> <<RuleLine, NoiseLine, RuleLine>>],
           [raised |-> FALSE, rc |-> 2, out_lines |-> << >>],
           [raised |-> TRUE, rc |-> 0, out_lines |-> << >>] }

\* "\n".join(out_lines).splitlines(): every captured line ends with a newline,
\* so an empty line comes between two lines
joined_splitlines(out_lines) ==
    IF out_lines = << >> THEN << >>
    ELSE [x \in 1..(2 * Len(out_lines) - 1) |->
            IF x % 2 = 1 THEN out_lines[(x + 1) \div 2] ELSE ""]

\* flog.write(f"{pkg_name} {target} 失败 rc={rc}\n") (lines 216, 235)
failed_record(pkg_name, target, rc) ==
    [type |-> "failed", pkg |-> pkg_name, target |-> target, rc |-> rc, text |-> ""]

\* flog.write(f"缺失 rule: {l}\n") (lines 220, 239)
rule_record(l) ==
    [type |-> "rule", pkg |-> "", target |-> << >>, rc |-> 0, text |-> l]

\* flog.write(f"{pkg_name} 异常: {e}\n") (line 244)
exception_record(pkg_name) ==
    [type |-> "exception", pkg |-> pkg_name, target |-> << >>, rc |-> 0, text |-> ""]

\* Mutant: every output line of the failed run is written, marker or not
missing_rule_records_unfiltered(out_lines) ==
    LET ls == joined_splitlines(out_lines) IN
    [x \in 1..Len(ls) |-> rule_record(ls[x])]

\* for l in out.splitlines(): if "No agirosdep rule for" in l (lines 236-239)
missing_rule_records(out_lines) ==
    LET ls == SelectSeq(joined_splitlines(out_lines), HasMarker) IN
    [x \in 1..Len(ls) |-> rule_record(ls[x])]

\* What a failed run adds to the log (lines 235-239)
failure_lines(pkg_name, target, r) ==
    <<failed_record(pkg_name, target, r.rc)>> \o missing_rule_records(r.out_lines)

RECURSIVE without(_, _)
\* [v for v in fallback if v != default]
without(fallback, default) ==
    IF fallback = << >> THEN << >>
    ELSE (IF Head(fallback) # default THEN <<Head(fallback)>> ELSE << >>)
         \o without(Tail(fallback), default)

\* versions (line 223)
versions_of(default, fallback) == <<default>> \o without(fallback, default)

\* debian/control of a subpackage as main() may find it: [exists, text]
NoControl == [exists |-> FALSE, text |-> << >>]
Control(text) == [exists |-> TRUE, text |-> text]
ControlFiles ==
    { NoControl,
      Control(<<"Source: x", "Depends:">>),
      Control(<<"Depends:", "!nocheck">>),
      Control(<<"Source: x">>) }

\* rpm/ of a subpackage: [is_dir, specs], specs the texts of rpm/*.spec
NoRpmDir == [is_dir |-> FALSE, specs |-> << >>]
RpmDir(specs) == [is_dir |-> TRUE, specs |-> specs]
RpmDirs ==
    { NoRpmDir,
      RpmDir(<< >>),
      RpmDir(<< <<"Name: x">> >>),
      RpmDir(<< <<"Name: x">>, <<"Name: y", "!nocheck">> >>) }

\* needle in text
InText(needle, text) == \E x \in DOMAIN text : text[x] = needle

\* Mutant: a control file counts as valid as soon as it exists
is_valid_debian_if_exists(control) == control.exists

\* is_valid_debian (lines 56-65)
is_valid_debian(control) ==
    IF ~control.exists THEN FALSE
    ELSE IF InText("!nocheck", control.text) THEN FALSE
    ELSE IF ~InText("Depends:", control.text) THEN FALSE
    ELSE TRUE

\* is_valid_spec (lines 68-79)
is_valid_spec(rpm) ==
    IF ~rpm.is_dir THEN FALSE
    ELSE IF rpm.specs = << >> THEN FALSE
    ELSE \A x \in DOMAIN rpm.specs : ~InText("!nocheck", rpm.specs[x])

\* The actions of the jazzy section of a package that is not passed over
ActionLists ==
    { <<"--os-name ubuntu">>, <<"--os-name openeuler">>, <<"x", "--os-name rhel">>,
      <<"--os-name ubuntu", "--os-name openeuler">> }

\* need_ubuntu (line 181)
need_ubuntu_of(actions) == InText("--os-name ubuntu", actions)

\* need_oe (line 182)
need_oe_of(actions) ==
    InText("--os-name openeuler", actions) \/ InText("--os-name rhel", actions)

OobIdle ==
    [pc |-> "idle", dry_run |-> FALSE, default |-> "", fallback |-> << >>,
     todo |-> 0, pkg |-> "", need_oe |-> FALSE, idx |-> 0, success |-> FALSE,
     reported |-> FALSE, attempts |-> << >>,
     need |-> [ubuntu |-> FALSE, oe |-> FALSE], control |-> NoControl, rpm |-> NoRpmDir]

\* The iteration of the subpackage loop is over: its findings are dropped
EndOfSubpackage(o) ==
    [o EXCEPT !.pc = "pkg", !.need = OobIdle.need, !.control = NoControl, !.rpm = NoRpmDir]

\* What the builder leaves of the menu, its queue and the other tools
NoMenu ==
    UNCHANGED <<queue_file, queue_meta_file, build_queue, queue_packages, package_status,
                pc, pkg_idx, task_idx, failed_packages, aborted, executed, start_status,
                last, disk, proc, gbp, build>>

\* main() starts: the arguments are parsed, fail.log is opened with mode "w"
\* (line 168) and the package directories are found
OobStart ==
    /\ oob.pc \in {"idle", "done"}
    /\ \E default \in OeDefaults, fallback \in OeFallbacks, dry_run \in BOOLEAN,
          n \in 1..Len(OobPkgs) :
        oob' = [OobIdle EXCEPT !.pc = "pkg", !.dry_run = dry_run, !.default = default,
                               !.fallback = fallback, !.todo = n]
    /\ fail_log' = << >>
    /\ NoMenu

\* The next subpackage: what it needs and what valid output it has decide
\* which generation comes first, if any (lines 181-182, 194-205)
OobNextPkg ==
    /\ oob.pc = "pkg"
    /\ oob.todo > 0
    /\ \E actions \in ActionLists, control \in ControlFiles, rpm \in RpmDirs :
        oob' = [oob EXCEPT !.pc = IF need_ubuntu_of(actions) /\ ~is_valid_debian(control)
                                  THEN "ubuntu"
                                  ELSE IF need_oe_of(actions) /\ ~is_valid_spec(rpm)
                                  THEN "search"
                                  ELSE "pkg",
                           !.pkg = OobPkgs[Len(OobPkgs) + 1 - oob.todo],
                           !.todo = @ - 1,
                           !.need_oe = need_oe_of(actions) /\ ~is_valid_spec(rpm),
                           !.idx = 1, !.success = FALSE, !.reported = FALSE,
                           !.attempts = << >>,
                           !.need = [ubuntu |-> need_ubuntu_of(actions),
                                     oe |-> need_oe_of(actions)],
                           !.control = control, !.rpm = rpm]
    /\ UNCHANGED fail_log
    /\ NoMenu

\* A package directory that is passed over: no section, no actions for
\* ubuntu or openeuler, or no directory of that name in code_dir (lines 170-190)
OobSkip ==
    /\ oob.pc = "pkg"
    /\ oob.todo > 0
    /\ oob' = [oob EXCEPT !.todo = @ - 1, !.need = OobIdle.need,
                           !.control = NoControl, !.rpm = NoRpmDir]
    /\ UNCHANGED fail_log
    /\ NoMenu

\* The debian generation of the subpackage (lines 208-220, 243-245)
OobUbuntu ==
    /\ oob.pc = "ubuntu"
    /\ \E r \in RunOutcomes(oob.dry_run) :
        IF r.raised THEN
            /\ fail_log' = Append(fail_log, exception_record(oob.pkg))
            /\ oob' = EndOfSubpackage(oob)
        ELSE
            /\ fail_log' = IF r.rc = 0 THEN fail_log
                           ELSE fail_log \o failure_lines(oob.pkg, <<"ubuntu">>, r)
            /\ oob' = IF oob.need_oe THEN [oob EXCEPT !.pc = "search"]
                      ELSE EndOfSubpackage(oob)
    /\ NoMenu

\* One candidate of the openEuler version search (lines 225-241, 243-245)
OobAttempt ==
    /\ oob.pc = "search"
    /\ LET versions == versions_of(oob.default, oob.fallback)
           ver == versions[oob.idx]
       IN  \E r \in RunOutcomes(oob.dry_run) :
            LET tried == Append(oob.attempts, [ver |-> ver, raised |-> r.raised,
                                               rc |-> r.rc, out_lines |-> r.out_lines])
            IN  IF r.raised THEN
                    /\ fail_log' = Append(fail_log, exception_record(oob.pkg))
                    /\ oob' = EndOfSubpackage([oob EXCEPT !.attempts = tried])
                ELSE IF r.rc = 0 THEN
                    /\ fail_log' = fail_log
                    /\ oob' = EndOfSubpackage([oob EXCEPT !.success = TRUE,
                                                          !.attempts = tried])
                ELSE
                    /\ fail_log' = fail_log
                                     \o failure_lines(oob.pkg, <<"openeuler", ver>>, r)
                    /\ oob' = IF oob.idx < Len(versions)
                              THEN [oob EXCEPT !.idx = @ + 1, !.attempts = tried]
                              ELSE EndOfSubpackage([oob EXCEPT !.reported = TRUE,
                                                               !.attempts = tried])
    /\ NoMenu

\* The last package is done: fail.log is closed and main() returns
OobEnd ==
    /\ oob.pc = "pkg"
    /\ oob.todo = 0
    /\ oob' = [EndOfSubpackage(oob) EXCEPT !.pc = "done"]
    /\ UNCHANGED fail_log
    /\ NoMenu

----------------------------------------------------------------------------
(* agiros_oob_builder_procedural.py: run(), the loop reading the subprocess *)

\* A subprocess writes at most MaxOutput pieces of text before it exits
MaxOutput == 3

\* Text the subprocess writes, as tokens; the first holds "Continue [Y/n]?"
PromptText == <<"Continue [Y/n]?">>
BuildText == <<"building">>
ChildTexts == {PromptText, BuildText}

\* "Continue [Y/n]?" in line (line 44)
AsksToContinue(line) == \E x \in DOMAIN line : line[x] = "Continue [Y/n]?"

\* No call of run() yet.  stdout holds the complete lines the subprocess wrote
\* and the loop has not read, partial the text it wrote after its last
\* newline, stdin the number of answers written and not read by it
ProcIdle ==
    [pc |-> "idle", child |-> "none", stdout |-> << >>, partial |-> << >>,
     stdin |-> 0, emitted |-> 0, out_lines |-> << >>, answers |-> 0,
     rc |-> 0, out |-> << >>]

\* What run() and its subprocess leave of everything else
NoQueue ==
    UNCHANGED <<queue_file, queue_meta_file, build_queue, queue_packages, package_status,
                pc, pkg_idx, task_idx, failed_packages, aborted, executed, start_status,
                last, disk, fail_log, oob, gbp, build>>

\* run() is called (lines 28-39): a dry run returns at once, otherwise the
\* subprocess is started with pipes on stdin and stdout, or Popen raises
RunStart ==
    /\ proc.pc \in {"idle", "returned", "raised"}
    /\ \E dry_run \in BOOLEAN, started \in BOOLEAN :
        proc' = IF dry_run THEN [ProcIdle EXCEPT !.pc = "returned"]
                ELSE IF ~started THEN [ProcIdle EXCEPT !.pc = "raised"]
                ELSE [ProcIdle EXCEPT !.pc = "read", !.child = "running"]
    /\ NoQueue

\* The subprocess writes text and a newline: a line is complete
ChildWritesLine ==
    /\ proc.child = "running"
    /\ proc.emitted < MaxOutput
    /\ \E text \in ChildTexts :
        proc' = [proc EXCEPT !.stdout = Append(@, proc.partial \o text),
                             !.partial = << >>,
                             !.emitted = @ + 1]
    /\ NoQueue

\* The subprocess asks on a line of its own, then reads its stdin
ChildAsksOnLine ==
    /\ proc.child = "running"
    /\ proc.emitted < MaxOutput
    /\ proc' = [proc EXCEPT !.stdout = Append(@, proc.partial \o PromptText),
                            !.partial = << >>,
                            !.emitted = @ + 1,
                            !.child = "reading"]
    /\ NoQueue

\* The subprocess writes the prompt without a newline, as input() does, then
\* reads its stdin
ChildPrompts ==
    /\ proc.child = "running"
    /\ proc.emitted < MaxOutput
    /\ proc' = [proc EXCEPT !.partial = @ \o PromptText,
                            !.emitted = @ + 1,
                            !.child = "reading"]
    /\ NoQueue

\* The subprocess gets an answer from its stdin and goes on
ChildReads ==
    /\ proc.child = "reading"
    /\ proc.stdin > 0
    /\ proc' = [proc EXCEPT !.stdin = @ - 1, !.child = "running"]
    /\ NoQueue

\* The subprocess exits: its stdout is closed and the text after the last
\* newline is the last line
ChildExits ==
    /\ proc.child = "running"
    /\ \E rc \in ExitCodes :
        proc' = [proc EXCEPT !.child = "exited", !.rc = rc,
                             !.stdout = IF proc.partial = << >> THEN @
                                        ELSE Append(@, proc.partial),
                             !.partial = << >>]
    /\ NoQueue

\* One turn of "for line in proc.stdout" (lines 40-46): the next complete
\* line is kept and, when it holds the marker, answered with "n"; the write
\* to a subprocess that is gone raises BrokenPipeError
RunReadLine ==
    /\ proc.pc = "read"
    /\ proc.stdout # << >>
    /\ LET line == Head(proc.stdout)
           read == [proc EXCEPT !.stdout = Tail(@), !.out_lines = Append(@, line)]
       IN  proc' = IF ~AsksToContinue(line) THEN read
                   ELSE IF proc.child = "exited" THEN [read EXCEPT !.pc = "raised"]
                   ELSE [read EXCEPT !.stdin = @ + 1, !.answers = @ + 1]
    /\ NoQueue

\* The output has ended: proc.wait() and the result (lines 47-51)
RunReturn ==
    /\ proc.pc = "read"
    /\ proc.stdout = << >>
    /\ proc.child = "exited"
    /\ proc' = [proc EXCEPT !.pc = "returned",
                            !.out = IF proc.rc # 0 THEN proc.out_lines ELSE << >>]
    /\ NoQueue

----------------------------------------------------------------------------
(* gbp.conf from a tracks descriptor *)

\* ---- values of a YAML document.  A string is a sequence of tokens; a dict
\* is the sequence of its items in document order

YNone == [t |-> "none"]
YStr(s) == [t |-> "str", s |-> s]
YInt(n) == [t |-> "int", n |-> n]
\* a float whose integral part is n
YFloat(n) == [t |-> "float", n |-> n]
YList == [t |-> "list"]
YDict(items) == [t |-> "dict", items |-> items]

\* bool(v)
truthy(v) ==
    CASE v.t = "none" -> FALSE
      [] v.t = "str" -> v.s # << >>
      [] v.t \in {"int", "float"} -> v.n # 0
      [] v.t = "dict" -> v.items # << >>
      [] OTHER -> TRUE

\* a or b
or_else(a, b) == IF truthy(a) THEN a ELSE b

\* Index of the first element of items that passes Test, 0 when none does
FirstIndex(items, Test(_)) ==
    LET hits == {x \in DOMAIN items : Test(items[x])} IN
    IF hits = {} THEN 0 ELSE CHOOSE x \in hits : \A y \in hits : x <= y

\* d.get(key, default) on a dict d
dict_get(d, key, default) ==
    LET x == FirstIndex(d.items, LAMBDA it : it.k = YStr(key)) IN
    IF x = 0 THEN default ELSE d.items[x].v

\* str.lower(): the one upper-case token of the keys used here is "J"
lower(s) == [x \in DOMAIN s |-> IF s[x] = "J" THEN "j" ELSE s[x]]

\* sub in s
contains(sub, s) ==
    \E x \in 1..(Len(s) - Len(sub) + 1) : SubSeq(s, x, x + Len(sub) - 1) = sub

\* s.startswith(":{"), the test of _is_placeholder (generate_cmd.py lines
\* 76-77): the placeholder tokens of a tracks file, ":{version}"
startswith_placeholder(s) == s # << >> /\ Head(s) = ":{"

\* ---- the three look-ups of the distro section

NotFound == [found |-> FALSE, raised |-> FALSE, section |-> YNone]
LookupRaised == [found |-> FALSE, raised |-> TRUE, section |-> YNone]
Found(section) == [found |-> TRUE, raised |-> FALSE, section |-> section]

\* k.lower() == target on a key that is a string
key_equals(it, target) == it.k.t = "str" /\ lower(it.k.s) = target

\* target in k.lower() on a key that is a string
key_contains(it, target) == it.k.t = "str" /\ contains(target, lower(it.k.s))

\* gbpconf_generator._pick_distro_section: the first key equal ignoring case
\* whose value is a mapping, else the first key containing the distro whose
\* value is a mapping, else KeyError; tracks.items() of a value that is no
\* mapping raises AttributeError
pick_distro_section(tracks, distro) ==
    IF tracks.t # "dict" THEN LookupRaised
    ELSE
        LET exact == FirstIndex(tracks.items,
                         LAMBDA it : key_equals(it, lower(distro)) /\ it.v.t = "dict")
            partial == FirstIndex(tracks.items,
                         LAMBDA it : key_contains(it, lower(distro)) /\ it.v.t = "dict")
        IN  IF exact # 0 THEN Found(tracks.items[exact].v)
            ELSE IF partial # 0 THEN Found(tracks.items[partial].v)
            ELSE LookupRaised

\* TracksParser._find_distro_case_insensitive with lines 113-117 of
\* parse_file: the first key equal ignoring case, else the first key
\* containing the distro; the value of that key if it is a mapping
find_distro_case_insensitive(tracks, distro) ==
    IF tracks.t # "dict" THEN LookupRaised
    ELSE
        LET exact == FirstIndex(tracks.items, LAMBDA it : key_equals(it, lower(distro)))
            partial == FirstIndex(tracks.items, LAMBDA it : key_contains(it, lower(distro)))
            key == IF exact # 0 THEN exact ELSE partial
        IN  IF key = 0 THEN NotFound
            ELSE IF tracks.items[key].v.t = "dict" THEN Found(tracks.items[key].v)
            ELSE NotFound

\* The loop of _read_tracks (generate_cmd.py lines 122-128, agirosdebian.py
\* lines 208-214): the first key equal ignoring case whose value is a mapping;
\* an empty mapping counts as no section
read_tracks_section(tracks, distro) ==
    IF tracks.t # "dict" THEN LookupRaised
    ELSE
        LET exact == FirstIndex(tracks.items,
                         LAMBDA it : key_equals(it, lower(distro)) /\ it.v.t = "dict")
        IN  IF exact # 0 /\ truthy(tracks.items[exact].v)
            THEN Found(tracks.items[exact].v)
            ELSE NotFound

\* ---- the document of a tracks file

\* yaml.safe_load failed
YError == [t |-> "error"]
\* no tracks file was found
YAbsent == [t |-> "absent"]

\* data.get("tracks", data) (gbpconf_generator.py line 66, generate_cmd.py
\* line 114, agiros_oob_builder_procedural.py lines 106-109)
tracks_of(data) == dict_get(data, <<"tracks">>, data)

\* ---- what is read from the section

\* The decimal numbers of the release increments used here
DigitValue == ("0" :> 0) @@ ("1" :> 1) @@ ("2" :> 2) @@ ("3" :> 3) @@ ("03" :> 3)

\* str(n) and f"{n}" of an int
str_of_int(n) == <<CHOOSE tok \in {"0", "1", "2", "3"} : DigitValue[tok] = n>>

\* int(v): the number, or ok = FALSE where int() raises
int_of(v) ==
    CASE v.t \in {"int", "float"} -> [ok |-> TRUE, n |-> v.n]
      [] v.t = "str" ->
            LET st == Strip(v.s) IN
            IF Len(st) = 1 /\ st[1] \in DOMAIN DigitValue
            THEN [ok |-> TRUE, n |-> DigitValue[st[1]]]
            ELSE [ok |-> FALSE, n |-> 0]
      [] OTHER -> [ok |-> FALSE, n |-> 0]

\* isinstance(v, str) and v.strip()
nonblank_str(v) == v.t = "str" /\ Strip(v.s) # << >>

\* name.replace(" ", "-")
replace_spaces(s) == [x \in DOMAIN s |-> IF s[x] = " " THEN "-" ELSE s[x]]

\* _normalize_branch_name (gbpconf_generator.py lines 82-85)
normalize_branch_name(name) ==
    LET n == replace_spaces(Strip(name)) IN
    IF n = << >> THEN <<"upstream">> ELSE n

\* Mutant: the version is looked at before the branch
upstream_branch_version_first(section) ==
    LET devel_branch == or_else(dict_get(section, <<"devel_branch">>, YNone),
                                dict_get(section, <<"upstream-branch">>, YNone))
        version == dict_get(section, <<"version">>, YNone)
    IN  IF nonblank_str(version) /\ ~startswith_placeholder(version.s)
        THEN normalize_branch_name(version.s)
        ELSE IF nonblank_str(devel_branch) THEN normalize_branch_name(devel_branch.s)
        ELSE <<"upstream">>

\* upstream_branch of _extract_upstream_info (lines 111-118)
upstream_branch(section) ==
    LET devel_branch == or_else(dict_get(section, <<"devel_branch">>, YNone),
                                dict_get(section, <<"upstream-branch">>, YNone))
        version == dict_get(section, <<"version">>, YNone)
    IN  IF nonblank_str(devel_branch) THEN normalize_branch_name(devel_branch.s)
        ELSE IF nonblank_str(version) /\ ~startswith_placeholder(version.s)
        THEN normalize_branch_name(version.s)
        ELSE <<"upstream">>

\* tag_pattern of _extract_upstream_info (lines 121-137), << >> for None
tag_pattern(section) ==
    LET release == dict_get(section, <<"release">>, YNone)
        tp == IF release.t = "dict" THEN dict_get(release, <<"tags">>, YNone) ELSE YNone
        legacy == or_else(dict_get(section, <<"release_tag">>, YNone),
                          dict_get(section, <<"release-tag">>, YNone))
    IN  IF nonblank_str(tp) THEN Strip(tp.s)
        ELSE IF nonblank_str(legacy) THEN Strip(legacy.s)
        ELSE << >>

\* tree_value of _extract_upstream_info (lines 122-131), << >> for None
tree_value(section) ==
    LET release == dict_get(section, <<"release">>, YNone)
        tv == IF release.t = "dict" THEN dict_get(release, <<"tree">>, YNone) ELSE YNone
    IN  IF nonblank_str(tv) THEN Strip(tv.s) ELSE << >>

\* _extract_upstream_info (lines 102-139)
extract_upstream_info(section) ==
    [upstream_branch |-> upstream_branch(section),
     tag_pattern |-> tag_pattern(section),
     tree_value |-> tree_value(section)]

\* release_inc of generate_gbp_conf (gbpconf_generator.py lines 233-237)
release_inc_of_section(section) ==
    LET v == dict_get(section, <<"release_inc">>, YNone) IN
    IF v.t # "none" /\ int_of(v).ok THEN str_of_int(int_of(v).n) ELSE <<"1">>

\* Mutant: a placeholder is kept like any other text
release_inc_of_tracks_keeps_placeholder(section) ==
    LET v == dict_get(section, <<"release_inc">>, YNone) IN
    CASE v.t \in {"int", "float"} -> str_of_int(v.n)
      [] v.t = "str" -> Strip(v.s)
      [] OTHER -> << >>

\* release_inc as _read_tracks keeps it (generate_cmd.py lines 130-136): the
\* text, or << >> when the key is not put in the result.  The increments of
\* the sections used here are numbers, strings or missing
release_inc_of_tracks(section) ==
    LET v == dict_get(section, <<"release_inc">>, YNone)
        text == CASE v.t \in {"int", "float"} -> str_of_int(v.n)
                  [] v.t = "str" -> Strip(v.s)
                  [] OTHER -> << >>
    IN  IF text # << >> /\ ~startswith_placeholder(text) THEN text ELSE << >>

\* track_version as _read_tracks keeps it (generate_cmd.py lines 137-139)
track_version_of_tracks(section) ==
    LET v == dict_get(section, <<"version">>, YNone) IN
    IF nonblank_str(v) /\ ~startswith_placeholder(v.s) THEN Strip(v.s) ELSE << >>

\* ---- the manifest package.xml of the source directory

ManifestAbsent == [t |-> "absent", version |-> << >>]
\* a package.xml with no version element, which parse_package rejects
ManifestBroken == [t |-> "broken", version |-> << >>]
Manifest(version) == [t |-> "ok", version |-> version]

\* _read_pkgxml_version (gbpconf_generator.py lines 88-99)
read_pkgxml_version(manifest) ==
    IF manifest.t = "ok" THEN Strip(manifest.version) ELSE <<"0.0.0">>

\* _resolve_version (generate_cmd.py lines 143-148), << >> for None
resolve_version(manifest) ==
    IF manifest.t = "ok" THEN manifest.version ELSE << >>

RECURSIVE resolve_ros_distro(_)
\* _resolve_ros_distro (generate_cmd.py lines 151-161) on the candidates
\* cli_distro, $AGIROS_DISTRO, $AGIROS_ROS_DISTRO, $ROS_DISTRO
resolve_ros_distro(candidates) ==
    IF candidates = << >> THEN <<"unknown">>
    ELSE IF nonblank_str(Head(candidates)) THEN Strip(Head(candidates).s)
    ELSE resolve_ros_distro(Tail(candidates))

\* ---- debian/gbp.conf

\* f"release/{distro}/{pkg}/{version}-{release_inc}"
canonical_tag(distro, pkg, version, release_inc) ==
    <<"release", "/">> \o distro \o <<"/">> \o pkg \o <<"/">> \o version
        \o <<"-">> \o release_inc

\* Mutant: the pattern read from the section is the tag when there is one
upstream_tag_from_pattern(pattern, distro, pkg, version, release_inc) ==
    IF pattern # << >> THEN pattern
    ELSE canonical_tag(distro, pkg, version, release_inc)

\* upstream_tag of generate_gbp_conf (gbpconf_generator.py lines 230, 247):
\* the pattern read from the section is not used
upstream_tag(pattern, distro, pkg, version, release_inc) ==
    canonical_tag(distro, pkg, version, release_inc)

\* The three lines both writers produce (gbpconf_generator.py lines 172-177,
\* generate_cmd.py lines 185-190)
gbp_conf(tag, tree) ==
    << <<"[git-buildpackage]">>,
       <<"upstream-tag=">> \o tag,
       <<"upstream-tree=">> \o tree >>

\* _write_gbp_conf (gbpconf_generator.py lines 170-178)
write_gbp_conf(tag, tree) ==
    gbp_conf(tag, IF tree = << >> THEN <<"tag">> ELSE tree)

\* ---- the three entry points

jazzy == <<"j", "azzy">>

NoInfo == [upstream_branch |-> << >>, tag_pattern |-> << >>, tree_value |-> << >>]

\* What an entry point gives when it raises or returns without a section:
\* nothing is written
NoResult(look, raised) ==
    [raised |-> raised, written |-> FALSE, lookup |-> look, info |-> NoInfo,
     release_inc |-> << >>, version |-> << >>, distro |-> << >>, pkg_name |-> << >>,
     upstream_tag |-> << >>, file |-> << >>]

\* --distro of gbpconf_generator (line 266): the argument, else $AGIROS_DISTRO
\* if set, else "jazzy" (line 43)
default_distro(in) ==
    IF in.cli_distro.t # "none" THEN in.cli_distro.s
    ELSE IF in.env.AGIROS_DISTRO.t # "none" THEN in.env.AGIROS_DISTRO.s
    ELSE jazzy

\* generate_gbp_conf of gbpconf_generator.py from line 225 on, for a source
\* directory that was found.  _find_tracks_file raises when there is no tracks
\* file, _load_tracks when the document cannot be parsed or is no mapping,
\* _pick_distro_section when there is no section
generate_gbp_conf(in, distro, look) ==
    IF look.raised THEN NoResult(look, TRUE)
    ELSE
        [raised |-> FALSE, written |-> TRUE, lookup |-> look,
         info |-> extract_upstream_info(look.section),
         release_inc |-> release_inc_of_section(look.section),
         version |-> read_pkgxml_version(in.manifest),
         distro |-> distro,
         pkg_name |-> IF truthy(in.pkg) THEN in.pkg.s ELSE in.dirname,
         upstream_tag |->
            upstream_tag(tag_pattern(look.section), distro,
                         IF truthy(in.pkg) THEN in.pkg.s ELSE in.dirname,
                         read_pkgxml_version(in.manifest),
                         release_inc_of_section(look.section)),
         file |->
            write_gbp_conf(
                upstream_tag(tag_pattern(look.section), distro,
                             IF truthy(in.pkg) THEN in.pkg.s ELSE in.dirname,
                             read_pkgxml_version(in.manifest),
                             release_inc_of_section(look.section)),
                tree_value(look.section))]

\* The look-up of generate_gbp_conf (lines 225-227)
load_and_pick(doc, distro) ==
    IF doc.t # "dict" THEN LookupRaised
    ELSE pick_distro_section(tracks_of(doc), distro)

\* The distro key of _read_tracks (generate_cmd.py lines 115-120)
tracks_distro_key(in) ==
    or_else(in.tracks_distro,
            or_else(in.env.AGIROS_TRACKS_DISTRO,
                    or_else(in.env.OOB_TRACKS_DISTRO, YStr(jazzy)))).s

\* The look-up of _read_tracks (generate_cmd.py lines 107-128, agirosdebian.py
\* lines 193-214): no file and a parse error give the empty result
read_tracks_lookup(doc, distro) ==
    IF doc.t \in {"absent", "error"} THEN NotFound
    ELSE IF or_else(doc, YDict(<< >>)).t # "dict" THEN NotFound
    ELSE read_tracks_section(tracks_of(or_else(doc, YDict(<< >>))), distro)

\* The first of the texts that is not empty: a or b or c on strings and None
first_nonempty(a, b, c) == IF a # << >> THEN a ELSE IF b # << >> THEN b ELSE c

\* pkg_name of _ensure_gbp_conf (generate_cmd.py lines 179-181)
ensure_pkg_name(in) ==
    LET name == Strip(IF truthy(in.pkg) THEN in.pkg.s ELSE in.dirname) IN
    IF name = << >> THEN in.dirname ELSE name

\* _ensure_gbp_conf (generate_cmd.py lines 164-191, agirosdebian.py lines
\* 144-169) with the values _read_tracks found in the section, if any
ensure_gbp_conf(in, look, release_inc, version) ==
    IF look.raised THEN NoResult(look, TRUE)
    ELSE
        [raised |-> FALSE, written |-> TRUE, lookup |-> look,
         info |-> NoInfo,
         release_inc |-> release_inc,
         version |-> version,
         distro |-> resolve_ros_distro(<<in.cli_distro, in.env.AGIROS_DISTRO,
                                         in.env.AGIROS_ROS_DISTRO, in.env.ROS_DISTRO>>),
         pkg_name |-> ensure_pkg_name(in),
         upstream_tag |->
            canonical_tag(resolve_ros_distro(<<in.cli_distro, in.env.AGIROS_DISTRO,
                                               in.env.AGIROS_ROS_DISTRO,
                                               in.env.ROS_DISTRO>>),
                          ensure_pkg_name(in), version, release_inc),
         file |->
            gbp_conf(canonical_tag(resolve_ros_distro(<<in.cli_distro,
                                                        in.env.AGIROS_DISTRO,
                                                        in.env.AGIROS_ROS_DISTRO,
                                                        in.env.ROS_DISTRO>>),
                                   ensure_pkg_name(in), version, release_inc),
                     <<"tag">>)]

\* release_inc of _ensure_gbp_conf (line 176)
ensure_release_inc(look) ==
    first_nonempty(IF look.found THEN release_inc_of_tracks(look.section) ELSE << >>,
                   <<"0">>, <<"0">>)

\* version of _ensure_gbp_conf (line 177)
ensure_version(in, look) ==
    first_nonempty(resolve_version(in.manifest),
                   IF look.found THEN track_version_of_tracks(look.section) ELSE << >>,
                   <<"0.0.0">>)

\* TracksParser.parse_file (agiros_oob_builder_procedural.py lines 98-117) and
\* the test of its result in main() (lines 170-173)
parse_file(doc) ==
    IF doc.t \in {"absent", "error"} THEN NotFound
    ELSE IF or_else(doc, YDict(<< >>)).t # "dict" THEN NotFound
    ELSE
        LET look == find_distro_case_insensitive(
                        tracks_of(or_else(doc, YDict(<< >>))), jazzy)
        IN  IF look.found /\ ~truthy(look.section) THEN NotFound ELSE look

\* No resolution yet: in holds the descriptor, the arguments, the environment
\* and the manifest, file the lines of debian/gbp.conf (none: no such file)
GbpIdle ==
    [pc |-> "idle", entry |-> "", in |-> << >>, out |-> NoResult(NotFound, FALSE),
     file |-> << >>]

\* What a resolution leaves of everything else
OnlyGbp ==
    UNCHANGED <<queue_file, queue_meta_file, build_queue, queue_packages, package_status,
                pc, pkg_idx, task_idx, failed_packages, aborted, executed, start_status,
                last, disk, fail_log, oob, proc, build>>

\* The entry point has run: what it wrote, if anything, is the file
Resolved(entry, out) ==
    /\ gbp' = [gbp EXCEPT !.pc = "done", !.entry = entry, !.out = out,
                          !.file = IF out.written THEN out.file ELSE @]
    /\ OnlyGbp

\* python -m gbpconf_generator (lines 282-297)
GenerateGbpConf ==
    /\ gbp.pc \in {"ready", "done"}
    /\ Resolved("generate_gbp_conf",
                generate_gbp_conf(gbp.in, default_distro(gbp.in),
                    IF gbp.in.doc.t = "absent" THEN LookupRaised
                    ELSE load_and_pick(gbp.in.doc, default_distro(gbp.in))))

\* bloom-generate agirosdebian --generate-gbp (generate_cmd.py lines 278-288,
\* agirosdebian.py lines 77-83)
EnsureGbpConf ==
    /\ gbp.pc \in {"ready", "done"}
    /\ Resolved("_ensure_gbp_conf",
                ensure_gbp_conf(gbp.in,
                    read_tracks_lookup(gbp.in.doc, lower(tracks_distro_key(gbp.in))),
                    ensure_release_inc(
                        read_tracks_lookup(gbp.in.doc, lower(tracks_distro_key(gbp.in)))),
                    ensure_version(gbp.in,
                        read_tracks_lookup(gbp.in.doc, lower(tracks_distro_key(gbp.in))))))

\* The OOB builder reads the section of a package (lines 170-173)
ParseFile ==
    /\ gbp.pc \in {"ready", "done"}
    /\ Resolved("parse_file", NoResult(parse_file(gbp.in.doc), parse_file(gbp.in.doc).raised))

\* state.save_queue(tasks) with a task list of the caller's (lines 382-383):
\* the call that is pending in last is made
SaveQueueCall ==
    /\ pc = "menu"
    /\ last.op = "call_save_queue"
    /\ Install(save_queue(last.tasks, queue_packages, package_status))
    /\ last' = [last EXCEPT !.op = "save_queue"]
    /\ UNCHANGED <<pc, pkg_idx, task_idx, failed_packages, aborted, executed,
                   start_status, fail_log, oob, proc, gbp, build>>

----------------------------------------------------------------------------
(* agiros_tools_menu.py: run_debian_build and run_rpm_build, the loop that *)
(* builds with the build script and retries                                 *)

\* The script runs of one call are counted up to MaxRuns
MaxRuns == 3

\* Exit codes of the build script and of a repair command
ScriptCodes == {0, 1, 2}
RepairCodes == {0, 1}

\* What the operator types as repair command: nothing, or a command
UserCommands == {<< >>, <<"make", "fix">>}

\* The answers of ask_select: one of the two choices, or None when the
\* question is cancelled
RetryChoice == "retry"
Answers == {RetryChoice, "exit", "none"}

BuildIdle ==
    [pc |-> "idle", kind |-> "", script |-> FALSE, rc |-> -1, repair_rc |-> -1,
     action |-> "", user_cmd |-> << >>, runs |-> 0, retries |-> 0, result |-> -1]

OnlyBuild ==
    UNCHANGED <<queue_file, queue_meta_file, build_queue, queue_packages, package_status,
                pc, pkg_idx, task_idx, failed_packages, aborted, executed, start_status,
                last, disk, fail_log, oob, proc, gbp>>

\* n + 1, up to MaxRuns
Counted(n) == IF n < MaxRuns THEN n + 1 ELSE n

\* run_debian_build / run_rpm_build is called (lines 742-744, 777-779): the
\* build script of the repository exists or not
BuildStart ==
    /\ build.pc \in {"idle", "returned"}
    /\ \E kind \in Kinds, script \in BOOLEAN :
        build' = [BuildIdle EXCEPT !.pc = IF script THEN "script" ELSE "plain",
                                   !.kind = kind, !.script = script]
    /\ OnlyBuild

\* Without build script: gbp buildpackage, or rpmbuild for each spec, and the
\* exit code is returned (lines 768-774, 799-812)
BuildPlain ==
    /\ build.pc = "plain"
    /\ \E rc \in ScriptCodes :
        build' = [build EXCEPT !.pc = "returned", !.result = rc]
    /\ OnlyBuild

\* rc = run_stream(["bash", script]) (lines 755, 784)
BuildRunsScript ==
    /\ build.pc = "script"
    /\ \E rc \in ScriptCodes :
        build' = [build EXCEPT !.pc = "check", !.rc = rc, !.runs = Counted(@)]
    /\ OnlyBuild

\* Mutant: the exit code of the repair command counts when it is there
rc_to_check_prefers_repair(b) == IF b.repair_rc # -1 THEN b.repair_rc ELSE b.rc

\* The exit code that decides: the one of the script (lines 756, 785)
rc_to_check(b) == b.rc

\* if rc == 0: return 0; otherwise the operator is asked (lines 756-759)
BuildChecksRc ==
    /\ build.pc = "check"
    /\ build' = IF rc_to_check(build) = 0
                THEN [build EXCEPT !.pc = "returned", !.result = 0]
                ELSE [build EXCEPT !.pc = "ask"]
    /\ OnlyBuild

\* action = ask_select(...) (lines 759, 788)
BuildAsks ==
    /\ build.pc = "ask"
    /\ \E answer \in Answers :
        build' = [build EXCEPT !.pc = "chosen", !.action = answer]
    /\ OnlyBuild

\* if action != retry: return rc; else the repair command is asked for
\* (lines 760-763)
BuildFollowsChoice ==
    /\ build.pc = "chosen"
    /\ \/ /\ build.action # RetryChoice
          /\ build' = [build EXCEPT !.pc = "returned", !.result = build.rc]
       \/ /\ build.action = RetryChoice
          /\ \E user_cmd \in UserCommands :
              build' = [build EXCEPT !.pc = IF user_cmd = << >> THEN "script" ELSE "repair",
                                     !.user_cmd = user_cmd, !.retries = Counted(@),
                                     !.repair_rc = IF user_cmd = << >> THEN -1
                                                   ELSE build.repair_rc]
    /\ OnlyBuild

\* run_stream(["bash", "-lc", user_cmd]): its exit code is dropped and the
\* loop starts over (lines 767, 796)
BuildRunsRepair ==
    /\ build.pc = "repair"
    /\ \E rc \in RepairCodes :
        build' = [build EXCEPT !.pc = "script", !.repair_rc = rc]
    /\ OnlyBuild

----------------------------------------------------------------------------
(* Specification *)

\* Queue files found at construction: none yet, files of the older version,
\* files with partial or unreadable metadata
InitialFiles ==
    { [lines |-> << >>, meta |-> [ok |-> TRUE, entries |-> << >>]],
      [lines |-> << <<"{", "name=a", "kind=rpm", "path=/p2", "extra_args=-x", "}">>,
                    <<"b">> >>,
       meta |-> [ok |-> TRUE, entries |->
                   << [name |-> NameA, path |-> P1,
                       kinds |-> <<[kind |-> "debian", extra_args |-> << >>],
                                   [kind |-> "rpm", extra_args |-> <<"-y">>]>>] >>]],
      [lines |-> << <<"a">>, << >>, <<"b">> >>,
       meta |-> [ok |-> TRUE, entries |->
                   << [name |-> NameB, path |-> << >>,
                       kinds |-> <<[kind |-> "other", extra_args |-> << >>]>>] >>]],
      [lines |-> << <<"b">> >>, meta |-> [ok |-> FALSE, entries |-> << >>]] }

\* The loaded queue m is the in-memory queue (lines 377-379)
Constructed(m) ==
    /\ build_queue = m.tasks
    /\ queue_packages = m.packages
    /\ package_status = m.status

\* MenuState.__post_init__: the queue is loaded from the files
Init ==
    \E f \in InitialFiles :
        /\ queue_file = f.lines
        /\ queue_meta_file = f.meta
        /\ Constructed(load_queue_from_file(f.lines, f.meta))
        /\ pc = "menu"
        /\ pkg_idx = 0
        /\ task_idx = 0
        /\ failed_packages = << >>
        /\ aborted = FALSE
        /\ executed = << >>
        /\ start_status = EmptyStatus
        /\ last = [op |-> "init", task |-> NoTask]
        /\ disk = OnDisk
        /\ fail_log = << >>
        /\ oob = OobIdle
        /\ proc = ProcIdle
        /\ gbp = GbpIdle /\ build = BuildIdle

Next ==
    \/ MenuLoad
    \/ MenuAppend
    \/ BloomAppend
    \/ MenuRemove
    \/ MenuClear
    \/ StartPass
    \/ ExecuteBuild
    \/ AskContinue

\* ---- load_queue_from_file on its own: files of bounded size, then the load

\* The line file holds at most MaxLines lines
MaxLines == 2

LineInputs ==
    { <<"a">>, <<"a", "#">>, <<"b">>, << >>, <<" ", "b", "#", " ">>,
      <<"{", "name=a", "kind=rpm", "path=/p2", "extra_args=-x", "}">>,
      <<"{", "name=a", "}">>,
      <<"{", "name=a#", "}">>,
      <<"{", "name=b", "completed=true", "path=/p2/.", "}">> }

LineFiles == UNION {[1..n -> LineInputs] : n \in 0..MaxLines}

MetaInputs ==
    { [ok |-> TRUE, entries |-> << >>],
      [ok |-> FALSE, entries |-> << >>],
      [ok |-> TRUE, entries |->
          << [name |-> NameA, path |-> P1,
              kinds |-> <<[kind |-> "debian", extra_args |-> << >>],
                          [kind |-> "rpm", extra_args |-> <<"-y">>]>>],
             [name |-> NameB, path |-> P2,
              kinds |-> <<[kind |-> "rpm", extra_args |-> <<"-x">>]>>] >>],
      [ok |-> TRUE, entries |->
          << [name |-> NameB, path |-> << >>,
              kinds |-> <<[kind |-> "other", extra_args |-> << >>]>>],
             [name |-> NameA, path |-> <<"/p1", "/.">>, kinds |-> << >>] >>],
      [ok |-> TRUE, entries |->
          << [name |-> NameA, path |-> P2, kinds |-> << >>] >>] }

\* What is found of the two files at construction
DiskInputs ==
    [queue_file : {"readable", "unreadable", "absent"},
     queue_meta_file : {"present", "absent"}]

InitLoad ==
    /\ queue_file \in LineFiles
    /\ queue_meta_file \in MetaInputs
    /\ disk \in DiskInputs
    /\ (disk.queue_file # "readable") => (queue_file = << >>)
    /\ (disk.queue_meta_file = "absent") => (queue_meta_file = NoMetaFile)
    /\ fail_log = << >>
    /\ oob = OobIdle
    /\ proc = ProcIdle
    /\ gbp = GbpIdle /\ build = BuildIdle
    /\ build_queue = << >>
    /\ queue_packages = << >>
    /\ package_status = EmptyStatus
    /\ pc = "new"
    /\ pkg_idx = 0
    /\ task_idx = 0
    /\ failed_packages = << >>
    /\ aborted = FALSE
    /\ executed = << >>
    /\ start_status = EmptyStatus
    /\ last = [op |-> "none", task |-> NoTask]

\* MenuState.__post_init__ (lines 159-163): missing files are created, then
\* the queue is loaded from the files
Construct ==
    /\ pc = "new"
    /\ LET e == ensure_queue_file(disk, queue_file, queue_meta_file) IN
           /\ disk' = e.disk
           /\ queue_file' = e.queue_file
           /\ queue_meta_file' = e.queue_meta_file
           /\ Loads(reload(e.disk, e.queue_file, e.queue_meta_file))
    /\ pc' = "menu"
    /\ last' = [op |-> "init", task |-> NoTask]
    /\ UNCHANGED <<pkg_idx, task_idx, failed_packages, aborted, executed, start_status,
                   fail_log, oob, proc, gbp, build>>

NextLoad == Construct \/ LoadRaises

SpecLoad == InitLoad /\ [][NextLoad]_vars

Spec == Init /\ [][Next]_vars

\* ---- the menu with somebody editing the queue files between operations

NextEdit == Next \/ HandEdit \/ LoadRaises

SpecEdit == Init /\ [][NextEdit]_vars

\* ---- the menu with package directories that may be gone when a task runs

NextDirs == Next \/ BuildRaises

SpecDirs == Init /\ [][NextDirs]_vars

\* ---- runs of the OOB builder, one after another, on a fail.log left by
\* earlier runs

PriorLogs == { << >>, <<failed_record("pkgZ", <<"ubuntu">>, 1)>> }

InitOob ==
    /\ queue_file = << >>
    /\ queue_meta_file = [ok |-> TRUE, entries |-> << >>]
    /\ build_queue = << >>
    /\ queue_packages = << >>
    /\ package_status = EmptyStatus
    /\ pc = "menu"
    /\ pkg_idx = 0
    /\ task_idx = 0
    /\ failed_packages = << >>
    /\ aborted = FALSE
    /\ executed = << >>
    /\ start_status = EmptyStatus
    /\ last = [op |-> "init", task |-> NoTask]
    /\ disk = OnDisk
    /\ fail_log \in PriorLogs
    /\ oob = OobIdle
    /\ proc = ProcIdle
    /\ gbp = GbpIdle /\ build = BuildIdle

NextOob == OobStart \/ OobNextPkg \/ OobSkip \/ OobUbuntu \/ OobAttempt \/ OobEnd

SpecOob == InitOob /\ [][NextOob]_vars

\* Every subprocess of the batch exits and every step of main() is taken
SpecOobFair == SpecOob /\ WF_vars(NextOob)

\* The queue and the builder at rest
AtRest ==
    /\ queue_file = << >>
    /\ queue_meta_file = [ok |-> TRUE, entries |-> << >>]
    /\ build_queue = << >>
    /\ queue_packages = << >>
    /\ package_status = EmptyStatus
    /\ pc = "menu"
    /\ pkg_idx = 0
    /\ task_idx = 0
    /\ failed_packages = << >>
    /\ aborted = FALSE
    /\ executed = << >>
    /\ start_status = EmptyStatus
    /\ last = [op |-> "init", task |-> NoTask]
    /\ disk = OnDisk
    /\ fail_log = << >>
    /\ oob = OobIdle

\* ---- the resolvers of the tracks descriptor on descriptors, arguments,
\* environments and manifests of bounded size

\* An item of a mapping with a one-token key
KV(key, v) == [k |-> YStr(<<key>>), v |-> v]

SecFull ==
    YDict(<< KV("devel_branch", YStr(<<"feature/x">>)),
             KV("version", YStr(<<"2.1.0">>)),
             KV("release", YDict(<< KV("tags", YStr(<<"release/", ":{", "version}">>)),
                                    KV("tree", YStr(<<"upstream">>)) >>)),
             KV("release_inc", YInt(3)) >>)

SecPlaceholders ==
    YDict(<< KV("version", YStr(<<":{", "version}">>)),
             KV("release_inc", YStr(<<":{", "release_inc}">>)),
             KV("release_tag", YStr(<<"v", "{version}">>)) >>)

SecSpaces ==
    YDict(<< KV("devel_branch", YStr(<<" ", "feature", " ", "x">>)),
             KV("upstream-branch", YStr(<<"legacy">>)),
             KV("version", YStr(<<"2.1.0", " ">>)),
             KV("release", YDict(<< KV("tree", YStr(<<" ">>)) >>)),
             KV("release_inc", YStr(<<" ", "2", " ">>)) >>)

SecBlankBranch ==
    YDict(<< KV("devel_branch", YStr(<<" ">>)),
             KV("version", YStr(<<"2.1.0">>)),
             KV("release_inc", YStr(<< >>)) >>)

SecLegacy ==
    YDict(<< KV("upstream-branch", YStr(<<"legacy">>)),
             KV("release", YStr(<<"upstream">>)),
             KV("release_inc", YFloat(2)) >>)

SecMasked ==
    YDict(<< KV("devel_branch", YInt(5)),
             KV("upstream-branch", YStr(<<"legacy">>)),
             KV("version", YStr(<<" ", ":{", "version}">>)),
             KV("release_inc", YStr(<<"03">>)) >>)

SecBare == YDict(<< KV("actions", YList), KV("release_inc", YInt(0)) >>)

SecEmpty == YDict(<< >>)

Sections ==
    {SecFull, SecPlaceholders, SecSpaces, SecBlankBranch, SecLegacy, SecMasked,
     SecBare, SecEmpty}

\* A document with the track table under the key "tracks"
Wrapped(table) == YDict(<< KV("tracks", table) >>)

\* Track tables: one section under "jazzy"; keys in other case, keys that
\* contain "jazzy", keys that are no strings, values that are no mappings
Tables ==
    {YDict(<< [k |-> YStr(jazzy), v |-> sec] >>) : sec \in Sections}
    \cup
    { YDict(<< [k |-> YStr(<<"j", "azzy", "_old">>), v |-> SecLegacy],
               [k |-> YStr(<<"J", "azzy">>), v |-> SecFull] >>),
      YDict(<< [k |-> YStr(<<"j", "azzy", "_old">>), v |-> SecLegacy] >>),
      YDict(<< [k |-> YStr(jazzy), v |-> YStr(<<"text">>)],
               [k |-> YStr(<<"j", "azzy", "_old">>), v |-> SecLegacy] >>),
      YDict(<< [k |-> YStr(<<"J", "azzy">>), v |-> YNone],
               [k |-> YStr(jazzy), v |-> SecFull] >>),
      YDict(<< [k |-> YInt(2024), v |-> SecFull],
               [k |-> YStr(<<"humble">>), v |-> SecPlaceholders] >>) }

\* Documents: no file, a parse error, an empty document, a list, a table
\* under "tracks" or at the top, and "tracks" holding no mapping
Docs ==
    {YAbsent, YError, YNone, YList, Wrapped(YList), Wrapped(YNone)}
    \cup {Wrapped(table) : table \in Tables}
    \cup {YDict(<< [k |-> YStr(<<"J", "azzy">>), v |-> SecFull] >>)}

NoEnv ==
    [AGIROS_TRACKS_DISTRO |-> YNone, OOB_TRACKS_DISTRO |-> YNone,
     AGIROS_DISTRO |-> YNone, AGIROS_ROS_DISTRO |-> YNone, ROS_DISTRO |-> YNone]

Envs ==
    { NoEnv,
      [NoEnv EXCEPT !.OOB_TRACKS_DISTRO = YStr(<<"humble">>),
                    !.AGIROS_DISTRO = YStr(<<" ">>),
                    !.ROS_DISTRO = YStr(<<" ", "ros2">>)] }

GbpInputs ==
    [doc : Docs,
     cli_distro : {YNone, YStr(<<"J", "azzy">>), YStr(<<" ">>)},
     tracks_distro : {YNone, YStr(<<"J", "azzy">>)},
     env : Envs,
     pkg : {YNone, YStr(<<"foo", " ">>)},
     dirname : {<<"foo_src">>},
     manifest : {ManifestAbsent, ManifestBroken, Manifest(<<"1.2.3">>)}]

\* debian/gbp.conf before the first resolution: none, or one with other keys
PriorGbpConf ==
    { << >>,
      << <<"[git-buildpackage]">>, <<"upstream-tag=", "old">>,
         <<"debian-branch=", "x">>, <<"[other]">> >> }

InitGbp ==
    /\ AtRest
    /\ proc = ProcIdle
    /\ build = BuildIdle
    /\ \E in \in GbpInputs, file \in PriorGbpConf :
        gbp = [GbpIdle EXCEPT !.pc = "ready", !.in = in, !.file = file]

NextGbp == GenerateGbpConf \/ EnsureGbpConf \/ ParseFile

SpecGbp == InitGbp /\ [][NextGbp]_vars

\* ---- save_queue called with task lists that name an identity more than
\* once

SavedTasks ==
    [display_name : {NameA, NameB}, path : Paths, kind : Kinds, extra_args : ExtraArgs]

SavedLists == UNION {[1..n -> SavedTasks] : n \in 0..MaxTasks}

\* The queue files at construction: an empty queue, or the packages b
\* (completed) and a
SavedPriorFiles ==
    { [lines |-> << >>, meta |-> [ok |-> TRUE, entries |-> << >>]],
      [lines |-> << <<"b", "#">>, <<"a">> >>, meta |-> [ok |-> TRUE, entries |-> << >>]] }

InitSave ==
    /\ \E f \in SavedPriorFiles :
        /\ queue_file = f.lines
        /\ queue_meta_file = f.meta
        /\ Constructed(load_queue_from_file(f.lines, f.meta))
    /\ pc = "menu"
    /\ pkg_idx = 0
    /\ task_idx = 0
    /\ failed_packages = << >>
    /\ aborted = FALSE
    /\ executed = << >>
    /\ start_status = EmptyStatus
    /\ \E tasks \in SavedLists :
        last = [op |-> "call_save_queue", task |-> NoTask, tasks |-> tasks]
    /\ disk = OnDisk
    /\ fail_log = << >>
    /\ oob = OobIdle
    /\ proc = ProcIdle
    /\ gbp = GbpIdle /\ build = BuildIdle

NextSave == SaveQueueCall

SpecSave == InitSave /\ [][NextSave]_vars

\* ---- calls of run_debian_build and run_rpm_build, one after another

InitBuild == AtRest /\ proc = ProcIdle /\ gbp = GbpIdle /\ build = BuildIdle

NextBuild ==
    \/ BuildStart
    \/ BuildPlain
    \/ BuildRunsScript
    \/ BuildChecksRc
    \/ BuildAsks
    \/ BuildFollowsChoice
    \/ BuildRunsRepair

SpecBuild == InitBuild /\ [][NextBuild]_vars

\* The script and the repair command exit, the operator answers
SpecBuildFair == SpecBuild /\ WF_vars(NextBuild)

\* ---- calls of run(), one after another, each on a subprocess of its own

InitRun == AtRest /\ proc = ProcIdle /\ gbp = GbpIdle /\ build = BuildIdle

NextRun ==
    \/ RunStart
    \/ ChildWritesLine
    \/ ChildAsksOnLine
    \/ ChildPrompts
    \/ ChildReads
    \/ ChildExits
    \/ RunReadLine
    \/ RunReturn

SpecRun == InitRun /\ [][NextRun]_vars

\* The loop and the subprocess both go on whenever they can
SpecRunFair == SpecRun /\ WF_vars(NextRun)

----------------------------------------------------------------------------
(* Readings of the state used by the properties *)

\* The execute_build calls of the pass that belong to package pkg, in order
CallsOf(pkg) == SelectSeq(executed, LAMBDA e : e.pkg = pkg)

\* The tasks of package pkg in the order the queue stores them
StoredTasks(pkg) == SelectSeq(build_queue, LAMBDA t : t.display_name = pkg)

\* Every task of pkg was executed in the pass, in order, and exited zero
AllTasksSucceeded(pkg) ==
    /\ Len(CallsOf(pkg)) = Len(StoredTasks(pkg))
    /\ \A x \in 1..Len(CallsOf(pkg)) :
          CallsOf(pkg)[x].kind = StoredTasks(pkg)[x].kind /\ CallsOf(pkg)[x].ok

Attempted(pkg) == CallsOf(pkg) # << >>

InPass == pc \in {"task", "confirm"}

PassEnded == pc = "menu" /\ last.op = "pass"

\* The completion flags the line file holds, as a reader of the file sees them
FlagsOnDisk == load_queue_from_file(queue_file, queue_meta_file).status

PositionOf(pkg) ==
    IF \E x \in 1..Len(queue_packages) : queue_packages[x] = pkg
    THEN CHOOSE x \in 1..Len(queue_packages) : queue_packages[x] = pkg
    ELSE 0

----------------------------------------------------------------------------
(* C1 *)

\* C1: during a pass, whenever a task of a package is about to start, the
\* result of every package that already finished in this pass is in the line
\* file (the files were written after each package), so that a crash loses at
\* most the package in flight.
C1_PersistedAfterEachPackage ==
    pc = "task" =>
        \A p \in DOMAIN package_status :
            (Attempted(p) /\ p # queue_packages[pkg_idx]) =>
                StatusGet(FlagsOnDisk, p) = package_status[p]

----------------------------------------------------------------------------
(* C2 *)

\* C2: at the end of a pass, a package that was pending at its start and was
\* attempted is completed exactly when every one of its tasks was executed in
\* the pass and exited zero; with a failed task it is pending again.
C2_FlagIffAllTasksSucceeded ==
    PassEnded =>
        \A p \in DOMAIN start_status :
            (~start_status[p] /\ Attempted(p)) =>
                /\ p \in DOMAIN package_status
                /\ package_status[p] = AllTasksSucceeded(p)
                /\ (\E x \in 1..Len(CallsOf(p)) : ~CallsOf(p)[x].ok) => ~package_status[p]

\* A pass ended in which one attempted package succeeded with two tasks and
\* another attempted package failed
C2_Witness ==
    /\ PassEnded
    /\ \E p, q \in DOMAIN start_status :
          /\ ~start_status[p] /\ ~start_status[q]
          /\ Attempted(p) /\ Attempted(q)
          /\ StatusGet(package_status, p) /\ Len(CallsOf(p)) = 2
          /\ ~StatusGet(package_status, q)

----------------------------------------------------------------------------
(* C3 *)

\* C3 (state part): a package completed when the pass started has no task
\* executed during the pass and is still completed in memory, and when the
\* pass has ended the line file holds its name with the completion marker.
C3_CompletedSkipped ==
    (InPass \/ PassEnded) =>
        \A p \in DOMAIN start_status :
            start_status[p] =>
                /\ ~Attempted(p)
                /\ StatusGet(package_status, p)
                /\ PassEnded =>
                      /\ (p \o <<"#">>) \in SeqToSet(queue_file)
                      /\ StatusGet(FlagsOnDisk, p)

\* C3 (step part): the flag of a listed package goes from completed to
\* pending only in a step that appends a task of that package.
C3_ResetOnlyByAppend ==
    \A p \in DOMAIN package_status :
        (/\ package_status[p]
         /\ p \in DOMAIN package_status' /\ ~package_status'[p])
        => (last'.op \in {"append", "bloom_append"} /\ last'.task.display_name = p)

\* C3: a package completed at the start of a pass is skipped by the pass and
\* stays completed (in memory and in the line file); it becomes executable
\* again only through an append for that package.
C3_Theorem == [](C3_CompletedSkipped) /\ [][C3_ResetOnlyByAppend]_vars

\* A pass ended that executed a pending package and passed over a completed one
C3_Witness ==
    /\ PassEnded
    /\ \E p, q \in DOMAIN start_status :
          start_status[p] /\ ~start_status[q] /\ Attempted(q) /\ PositionOf(p) < PositionOf(q)

----------------------------------------------------------------------------
(* C4 *)

\* C4: the execute_build calls of a package are its stored tasks in stored
\* order, one after another, and a failed call is the last call of the
\* package in the pass.
C4_TasksInOrderStopAtFailure ==
    \A p \in SeqToSet(queue_packages) :
        /\ Len(CallsOf(p)) <= Len(StoredTasks(p))
        /\ \A x \in 1..Len(CallsOf(p)) :
              /\ CallsOf(p)[x].kind = StoredTasks(p)[x].kind
              /\ x < Len(CallsOf(p)) => CallsOf(p)[x].ok

\* A pass ended in which the first of two tasks of a package failed and the
\* second was not executed, and another package ran both of its tasks
C4_Witness ==
    /\ PassEnded
    /\ \E p \in SeqToSet(queue_packages) :
          Len(StoredTasks(p)) = 2 /\ Len(CallsOf(p)) = 1 /\ ~CallsOf(p)[1].ok

\* A package ran both of its tasks in the stored order
C4_WitnessBoth ==
    \E p \in SeqToSet(queue_packages) :
        Len(StoredTasks(p)) = 2 /\ Len(CallsOf(p)) = 2

----------------------------------------------------------------------------
(* C5 *)

\* C5: the confirmation is asked right after a failed task; when the operator
\* declined, the pass ended with no execute_build call for any package behind
\* the failed one, and each of these packages has the flag it had when the
\* pass started (a pending one is still pending).
C5_DeclineHaltsPass ==
    /\ pc = "confirm" =>
          /\ executed # << >> /\ ~Last(executed).ok
          /\ Last(executed).pkg = queue_packages[pkg_idx]
    /\ aborted =>
          /\ PassEnded
          /\ \A x \in 1..Len(queue_packages) :
                x > PositionOf(Last(failed_packages)) =>
                    /\ ~Attempted(queue_packages[x])
                    /\ StatusGet(package_status, queue_packages[x])
                         = StatusGet(start_status, queue_packages[x])

\* The operator declined after a failure while a pending package was still
\* behind the failed one
C5_Witness ==
    /\ aborted
    /\ \E x \in 1..Len(queue_packages) :
          /\ x > PositionOf(Last(failed_packages))
          /\ ~StatusGet(start_status, queue_packages[x])
          /\ ~StatusGet(package_status, queue_packages[x])

----------------------------------------------------------------------------
(* C6 *)

AppendOps == {"append", "bloom_append"}

\* The identity keys of a task list, in order
KeysOf(tasks) == [x \in 1..Len(tasks) |-> <<tasks[x].display_name, tasks[x].kind>>]

NoDuplicates(s) == \A x, y \in 1..Len(s) : s[x] = s[y] => x = y

\* The (package, kind) pairs of the metadata object, one per kinds entry
MetaKeys(entries) ==
    UNION {{<<entries[x].name, entries[x].kinds[y].kind>> :
                y \in 1..Len(entries[x].kinds)} : x \in 1..Len(entries)}

MetaPairCount(entries) ==
    LET RECURSIVE Sum(_)
        Sum(x) == IF x = 0 THEN 0 ELSE Len(entries[x].kinds) + Sum(x - 1)
    IN  Sum(Len(entries))

\* C6 (state part): no two tasks of the queue share (display_name, kind), and
\* the metadata file holds no package twice and no kind twice under a package.
C6_OneTaskPerKey ==
    /\ NoDuplicates(KeysOf(build_queue))
    /\ queue_meta_file.ok =>
          /\ NoDuplicates([x \in 1..Len(queue_meta_file.entries) |->
                              queue_meta_file.entries[x].name])
          /\ Cardinality(MetaKeys(queue_meta_file.entries))
                = MetaPairCount(queue_meta_file.entries)

\* C6 (step part): an append of a task whose key the queue already holds
\* leaves the queue as long as it was, with that task's path and extra_args
\* replaced at its position and every other task as it was, and the metadata
\* file holds the key once; an append of a new key adds one task at the end.
C6_AppendReplacesInPlace ==
    (last'.op \in AppendOps) =>
        LET task == last'.task
            before == IF last'.op = "append"
                      THEN load_queue_from_file(queue_file, queue_meta_file).tasks
                      ELSE build_queue
            x == task_index(before, task)
        IN  /\ <<task.display_name, task.kind>> \in MetaKeys(queue_meta_file'.entries)
            /\ IF x # 0 THEN
                    /\ Len(build_queue') = Len(before)
                    /\ build_queue'[x] = task
                    /\ \A y \in 1..Len(before) : y # x => build_queue'[y] = before[y]
               ELSE build_queue' = Append(before, task)

\* C6: after any sequence of operations the queue holds at most one task per
\* (display_name, kind), in memory and in the metadata file, and appending an
\* existing key replaces that task's path and extra_args in place.
C6_Theorem == [](C6_OneTaskPerKey) /\ [][C6_AppendReplacesInPlace]_vars

\* An append has just replaced the path and extra_args of a task that was in
\* the queue with another path, next to a second task of the same package
C6_Witness ==
    /\ last.op \in AppendOps
    /\ \E x \in 1..Len(build_queue) :
          /\ build_queue[x] = last.task
          /\ \E y \in 1..Len(build_queue) :
                /\ y # x
                /\ build_queue[y].display_name = last.task.display_name
                /\ build_queue[y].path # last.task.path

----------------------------------------------------------------------------
(* C7 *)

\* C7: when append(task) has returned, the flag of task.display_name is false,
\* the line file lists that package without the completion marker and the
\* metadata file holds the task's path and, under its kind, its extra_args.
C7_AppendResetsAndPersists ==
    (pc = "menu" /\ last.op \in AppendOps) =>
        LET task == last.task
            x == MetaIndex(queue_meta_file.entries, task.display_name)
        IN  /\ task.display_name \in DOMAIN package_status
            /\ ~package_status[task.display_name]
            /\ task.display_name \in SeqToSet(queue_file)
            /\ (task.display_name \o <<"#">>) \notin SeqToSet(queue_file)
            /\ x # 0
            /\ queue_meta_file.entries[x].path = task.path
            /\ \E k \in 1..Len(queue_meta_file.entries[x].kinds) :
                  /\ queue_meta_file.entries[x].kinds[k].kind = task.kind
                  /\ queue_meta_file.entries[x].kinds[k].extra_args = task.extra_args

----------------------------------------------------------------------------
(* C8 *)

SaveOps == {"append", "bloom_append", "remove", "pass"}

\* C8: for files written by a save, loading them and saving again leaves the
\* line file and the metadata file as they are.
C8_SaveLoadIdempotent ==
    (pc = "menu" /\ last.op \in SaveOps) =>
        LET m == load_queue_from_file(queue_file, queue_meta_file)
            again == save_queue(m.tasks, m.packages, m.status)
        IN  /\ again.queue_file = queue_file
            /\ again.queue_meta_file = queue_meta_file

----------------------------------------------------------------------------
(* C9 *)

WriteOps == SaveOps \cup {"clear"}

\* The package names a reader finds in the line file
NamesInLineFile ==
    {parse_line(queue_file[x]).name :
        x \in {y \in 1..Len(queue_file) : ~parse_line(queue_file[y]).skip}}

\* C9: after every completed write operation the package names of the line
\* file are the keys of the metadata object, and every key has a kind entry.
C9_FilesConsistent ==
    (pc = "menu" /\ last.op \in WriteOps) =>
        /\ queue_meta_file.ok
        /\ NamesInLineFile = {queue_meta_file.entries[x].name :
                                 x \in 1..Len(queue_meta_file.entries)}
        /\ \A x \in 1..Len(queue_meta_file.entries) :
              queue_meta_file.entries[x].kinds # << >>

----------------------------------------------------------------------------
(* C10 *)

Loaded == pc = "menu" /\ last.op \in {"init", "load"}

\* The lines of the line file that are read as entries, parsed, by line number
ReadLines == {x \in 1..Len(queue_file) : ~parse_line(queue_file[x]).skip}

FirstLineOf(name) ==
    CHOOSE x \in ReadLines :
        /\ parse_line(queue_file[x]).name = name
        /\ \A y \in ReadLines : parse_line(queue_file[y]).name = name => x <= y

\* Package order and completion flags are those of the line file
OrderAndFlagsFromLineFile ==
    /\ SeqToSet(queue_packages) = {parse_line(queue_file[x]).name : x \in ReadLines}
    /\ NoDuplicates(queue_packages)
    /\ \A x, y \in 1..Len(queue_packages) :
          x < y => FirstLineOf(queue_packages[x]) < FirstLineOf(queue_packages[y])
    /\ DOMAIN package_status = SeqToSet(queue_packages)
    /\ \A n \in DOMAIN package_status :
          package_status[n] =
              \E x \in ReadLines : parse_line(queue_file[x]).name = n
                                     /\ parse_line(queue_file[x]).completed

\* The metadata object as read, {} for an unreadable file
MetaEntries == IF queue_meta_file.ok THEN queue_meta_file.entries ELSE << >>

\* The path and the extra_args of task are those of the metadata entry of its
\* package, when the file has that entry (and the entry has a path, has kinds)
FromMetadata(task) ==
    LET x == MetaIndex(MetaEntries, task.display_name) IN
    x # 0 =>
        /\ MetaEntries[x].path # << >> => task.path = Resolve(MetaEntries[x].path)
        /\ MetaEntries[x].kinds # << >> =>
              \E k \in 1..Len(MetaEntries[x].kinds) :
                  /\ MetaEntries[x].kinds[k].kind = task.kind
                  /\ MetaEntries[x].kinds[k].extra_args = task.extra_args

\* The legacy JSON-object lines (all of them, read or not) that name a package
LegacyLinesOf(name) ==
    {x \in 1..Len(queue_file) :
        parse_line(queue_file[x]).legacy /\ parse_line(queue_file[x]).name = name}

MaxOf(S) == CHOOSE x \in S : \A y \in S : y <= x

\* What the legacy lines of its package say of task: the last non-empty path,
\* and the extra_args of the last line of the task's kind
FromLegacyLines(task) ==
    LET lines == LegacyLinesOf(task.display_name)
        with_path == {x \in lines : parse_line(queue_file[x]).path # << >>}
        of_kind == {x \in lines : parse_line(queue_file[x]).kind = task.kind}
        x == MetaIndex(MetaEntries, task.display_name)
        meta_path == IF x = 0 THEN << >> ELSE MetaEntries[x].path
    IN  /\ IF with_path # {}
           THEN task.path = Resolve(parse_line(queue_file[MaxOf(with_path)]).path)
           ELSE IF meta_path # << >> THEN task.path = Resolve(meta_path)
           ELSE task.path = JoinPath(code_dir, task.display_name)
        /\ IF of_kind # {}
           THEN task.extra_args = parse_line(queue_file[MaxOf(of_kind)]).extra_args
           ELSE /\ x # 0
                /\ \E k \in 1..Len(MetaEntries[x].kinds) :
                      /\ MetaEntries[x].kinds[k].kind = task.kind
                      /\ MetaEntries[x].kinds[k].extra_args = task.extra_args

\* No path and no extra_args that the metadata file gives for the package and
\* the kind of task is replaced by something else
NotOverridden(task) ==
    LET x == MetaIndex(MetaEntries, task.display_name) IN
    x # 0 =>
        /\ MetaEntries[x].path # << >> => task.path = Resolve(MetaEntries[x].path)
        /\ \A k \in 1..Len(MetaEntries[x].kinds) :
              MetaEntries[x].kinds[k].kind = task.kind =>
                  MetaEntries[x].kinds[k].extra_args = task.extra_args

----------------------------------------------------------------------------
(* C11 *)

\* The packages listed by plain lines only, whose metadata entry is missing
\* or has no kinds
WithoutKinds ==
    {p \in SeqToSet(queue_packages) :
        /\ LegacyLinesOf(p) = {}
        /\ LET x == MetaIndex(MetaEntries, p) IN
              x = 0 \/ MetaEntries[x].kinds = << >>}

\* The path the metadata entry of p gives, << >> when it gives none
EntryPath(p) ==
    LET x == MetaIndex(MetaEntries, p) IN
    IF x = 0 THEN << >> ELSE MetaEntries[x].path

DefaultTask(p, path) ==
    [display_name |-> p, path |-> path, kind |-> "debian", extra_args |-> << >>]

----------------------------------------------------------------------------
(* C12 *)

\* C12 (state part): when clear() has returned, both files exist, the line
\* file has no package line, the metadata file holds the empty object, the
\* package list, the status map and the task list are empty, and a load of
\* the files gives the empty queue.
C12_ClearLeavesEmptyFiles ==
    (pc = "menu" /\ last.op = "clear") =>
        /\ disk = OnDisk
        /\ NamesInLineFile = {}
        /\ queue_meta_file = [ok |-> TRUE, entries |-> << >>]
        /\ queue_packages = << >> /\ package_status = EmptyStatus /\ build_queue = << >>
        /\ reload(disk, queue_file, queue_meta_file)
              = [raised |-> FALSE, packages |-> << >>, status |-> EmptyStatus,
                 tasks |-> << >>]

\* C12 (step part): no step of the program makes a file that exists missing.
C12_NoFileDeleted ==
    (last'.op # "hand_edit") =>
        /\ disk.queue_file # "absent" => disk'.queue_file # "absent"
        /\ disk.queue_meta_file # "absent" => disk'.queue_meta_file # "absent"

\* C12: clear() from any queue state leaves both files present and empty and
\* the in-memory queue empty; it never deletes a file, and a following load
\* gives the empty queue.
C12_Theorem == [](C12_ClearLeavesEmptyFiles) /\ [][C12_NoFileDeleted]_vars

\* clear() has returned, and the files are there and empty
C12_Witness ==
    /\ pc = "menu" /\ last.op = "clear"
    /\ disk = OnDisk /\ queue_file = << >>
    /\ executed = << >>

----------------------------------------------------------------------------
(* C13 *)

\* C13: a load never raises, whatever the two files hold: a file that cannot
\* be read or parsed counts as empty, so that with an unreadable metadata
\* file the queue is the one of the line file alone and with an unreadable
\* line file the queue is empty.
C13_LoadNeverRaises ==
    /\ pc # "raised"
    /\ Loaded =>
          /\ ~queue_meta_file.ok =>
                build_queue = load_queue_from_file(queue_file,
                                  [ok |-> TRUE, entries |-> << >>]).tasks
          /\ disk.queue_file = "unreadable" => queue_packages = << >>

----------------------------------------------------------------------------
(* C14 *)

\* The names a reader finds in the line file, line after line
NamesReadInOrder ==
    LET read == SelectSeq(queue_file, LAMBDA l : ~parse_line(l).skip) IN
    [x \in 1..Len(read) |-> parse_line(read[x]).name]

\* In memory a package is listed once and every task belongs to a listed one
ListedOnceInMemory ==
    /\ NoDuplicates(queue_packages)
    /\ \A x \in 1..Len(build_queue) :
          build_queue[x].display_name \in SeqToSet(queue_packages)

\* C14: in every reachable state of the menu the ordered package list holds
\* no name twice and every task's display_name is a listed package; the line
\* file that a save has written names no package twice.
C14_PackagesListedOnce ==
    /\ pc \in {"menu", "task", "confirm"} => ListedOnceInMemory
    /\ (pc = "menu" /\ last.op \in SaveOps) =>
          /\ NoDuplicates(queue_file)
          /\ NoDuplicates(NamesReadInOrder)

----------------------------------------------------------------------------
(* C15 *)

\* The sequence s without the elements equal to x
Without(s, x) == SelectSeq(s, LAMBDA y : y # x)

TasksOf(tasks, pkg) == SelectSeq(tasks, LAMBDA t : t.display_name = pkg)

\* C15 (step part): a step that removes package r from the queue shown by
\* the menu leaves no task of r of any kind, no flag of r, no line of r in
\* the line file and no entry of r in the metadata file; the other packages
\* keep their order, their flags and their tasks with path and extra_args,
\* in memory and as the files give them back.
C15_RemoveFrame ==
    (last'.op = "remove") =>
        LET before == reload(disk, queue_file, queue_meta_file)
            after == reload(disk', queue_file', queue_meta_file')
            r == last'.task.display_name
        IN  /\ r \in SeqToSet(before.packages)
            /\ TasksOf(build_queue', r) = << >>
            /\ r \notin DOMAIN package_status'
            /\ r \notin SeqToSet(queue_file') /\ (r \o <<"#">>) \notin SeqToSet(queue_file')
            /\ r \notin SeqToSet(after.packages)
            /\ MetaIndex(queue_meta_file'.entries, r) = 0
            /\ queue_packages' = Without(before.packages, r)
            /\ after.packages = queue_packages'
            /\ \A p \in SeqToSet(queue_packages') :
                  /\ package_status'[p] = before.status[p]
                  /\ after.status[p] = before.status[p]
                  /\ TasksOf(build_queue', p) = TasksOf(before.tasks, p)
                  /\ TasksOf(after.tasks, p) = TasksOf(before.tasks, p)

\* C15: removing a package removes all of its tasks, its flag, its line and
\* its metadata entry, and leaves every other package as it was.
C15_Theorem == [][C15_RemoveFrame]_vars

\* A package has been removed and a completed package is still in the queue,
\* with its marked line and its metadata entry
C15_Witness ==
    /\ pc = "menu" /\ last.op = "remove"
    /\ \E x \in 1..Len(queue_packages) :
          /\ package_status[queue_packages[x]]
          /\ (queue_packages[x] \o <<"#">>) \in SeqToSet(queue_file)
          /\ MetaIndex(queue_meta_file.entries, queue_packages[x]) # 0

----------------------------------------------------------------------------
(* C16 *)

\* The contents a queue operation leaves in the two files
FilesOf(q) == <<q.queue_file, q.queue_meta_file>>

\* An append, a removal or the save of a pass writes what the operation gives
\* on the queue that the files held just before it; for an append and a
\* removal this is looked at right after a hand edit of the files
WritesFromReloadedState ==
    LET m == reload(disk, queue_file, queue_meta_file)
        written == <<queue_file', queue_meta_file'>>
    IN  /\ (last.op = "hand_edit" /\ last'.op \in AppendOps) =>
              /\ ~m.raised
              /\ written = FilesOf(append_task_to_queue(m.tasks, m.packages, m.status,
                                                        last'.task))
        /\ (last.op = "hand_edit" /\ last'.op = "remove") =>
              /\ ~m.raised
              /\ \E idx \in 1..Len(m.packages) :
                    /\ m.packages[idx] = last'.task.display_name
                    /\ written = FilesOf(remove_package(m.tasks, m.packages, m.status, idx))
        /\ (pc # "menu" /\ last'.op = "pass") =>
              /\ ~m.raised
              /\ written = FilesOf(save_queue(m.tasks, m.packages, package_status'))

\* C16: every queue mutation (append from the bloom menu or the build menu,
\* removal, completion update of a pass) writes what it derives from the
\* files as reloaded right before it, so that a hand edit made between two
\* operations is not overwritten by a stale in-memory queue.
C16_MutationsReloadFirst == [][WritesFromReloadedState]_vars

----------------------------------------------------------------------------
(* C17 *)

IsPrefix(s, t) == Len(s) <= Len(t) /\ s = SubSeq(t, 1, Len(s))

RECURSIVE Dedup(_, _)
\* s without the elements of seen and without repetitions, order kept
Dedup(s, seen) ==
    IF s = << >> THEN << >>
    ELSE IF Head(s) \in seen THEN Dedup(Tail(s), seen)
    ELSE <<Head(s)>> \o Dedup(Tail(s), seen \cup {Head(s)})

\* [primary] followed by the fallback list without the primary and without
\* duplicates
ExpectedOrder(primary, fallback) == <<primary>> \o Dedup(fallback, {primary})

\* The candidates the search of the current subpackage has invoked, in order
AttemptedVersions == [x \in 1..Len(oob.attempts) |-> oob.attempts[x].ver]

\* The search of the current subpackage is over
SearchEnded == oob.pc \in {"pkg", "done"} /\ oob.attempts # << >>

\* No invocation of the search has raised
NoneRaised == \A x \in 1..Len(oob.attempts) : ~oob.attempts[x].raised

\* C17: the candidates are invoked in the order [primary] + fallback without
\* the primary and without duplicates, each distinct candidate at most once,
\* and none after an invocation that exited zero; a search in which every
\* invocation exited non-zero has gone through the whole of that order.
\* For primary "24" and fallback ["22","23","24"] the order is ["24","22","23"].
C17_CandidateOrder ==
    /\ ExpectedOrder("24", <<"22", "23", "24">>) = <<"24", "22", "23">>
    /\ IsPrefix(AttemptedVersions, ExpectedOrder(oob.default, oob.fallback))
    /\ NoDuplicates(AttemptedVersions)
    /\ \A x \in 1..(Len(oob.attempts) - 1) :
          oob.attempts[x].rc # 0 /\ ~oob.attempts[x].raised
    /\ (SearchEnded /\ NoneRaised /\ ~oob.success) =>
          AttemptedVersions = ExpectedOrder(oob.default, oob.fallback)

----------------------------------------------------------------------------
(* C18 *)

RECURSIVE ExpectedRecords(_, _)
\* For every attempt its record with the candidate and the exit code, then
\* one line for each of its output lines that holds the marker
ExpectedRecords(attempts, pkg_name) ==
    IF attempts = << >> THEN << >>
    ELSE
        LET a == Head(attempts)
            marked == SelectSeq(a.out_lines, LAMBDA l : l = RuleLine)
        IN  <<[type |-> "failed", pkg |-> pkg_name, target |-> <<"openeuler", a.ver>>,
               rc |-> a.rc, text |-> ""]>>
            \o [x \in 1..Len(marked) |->
                  [type |-> "rule", pkg |-> "", target |-> << >>, rc |-> 0,
                   text |-> marked[x]]]
            \o ExpectedRecords(Tail(attempts), pkg_name)

\* The last n lines of the log
LogTail(n) == SubSeq(fail_log, Len(fail_log) - n + 1, Len(fail_log))

\* The records of failed openEuler invocations the log holds for a package
SearchRecords(pkg_name) ==
    SelectSeq(fail_log, LAMBDA l : l.type = "failed" /\ l.pkg = pkg_name
                                    /\ l.target # <<"ubuntu">>)

\* C18: when a search has ended and every invocation exited non-zero, every
\* candidate was invoked, the overall failure is reported, and the log ends
\* with one record per invocation, carrying the candidate and its exit code
\* and followed by one line per marked output line of that invocation; the
\* log holds no other record of the search.
C18_FailedSearchLogged ==
    (SearchEnded /\ NoneRaised /\ ~oob.success) =>
        LET expected == ExpectedRecords(oob.attempts, oob.pkg) IN
        /\ oob.reported
        /\ Len(oob.attempts) = Len(versions_of(oob.default, oob.fallback))
        /\ Len(fail_log) >= Len(expected)
        /\ LogTail(Len(expected)) = expected
        /\ Len(SearchRecords(oob.pkg)) = Len(oob.attempts)

\* A search of three candidates has failed, one invocation with marked
\* output lines and one without output
C18_Witness ==
    /\ SearchEnded /\ NoneRaised /\ ~oob.success
    /\ Len(oob.attempts) = 3
    /\ \E x, y \in 1..3 :
          /\ oob.attempts[x].rc = 1 /\ oob.attempts[x].out_lines # << >>
          /\ oob.attempts[y].rc = 2
    /\ Len(fail_log) > 3

----------------------------------------------------------------------------
(* C19 *)

\* C19: the failure log only grows: in every step, every line the log held
\* is still there, in order, and new lines come at the end; a later run keeps
\* what an earlier run wrote.
C19_LogAppendOnly == [][IsPrefix(fail_log, fail_log')]_vars

----------------------------------------------------------------------------
(* C20 *)

\* A step of the pass in which one execute_build call was made
BuildStep == Len(executed') = Len(executed) + 1

\* C20: in a pass, a failed build task adds exactly one line at the end of
\* the failure log and leaves its package pending, and a successful one adds
\* no line; a package completed at the start of the pass stays completed.
C20_FailedTaskLogsOneLine ==
    [][BuildStep =>
          /\ IsPrefix(fail_log, fail_log')
          /\ Len(fail_log') = Len(fail_log) + (IF Last(executed').ok THEN 0 ELSE 1)
          /\ ~Last(executed').ok => ~StatusGet(package_status', Last(executed').pkg)
          /\ \A p \in DOMAIN start_status :
                start_status[p] => StatusGet(package_status', p)]_vars

----------------------------------------------------------------------------
(* C21 *)

\* The lines of ls that hold the confirmation marker
PromptsIn(ls) == SelectSeq(ls, AsksToContinue)

\* Before each read of a line, every line read so far that holds the marker
\* was answered with one "n"
AnsweredOncePerPrompt ==
    proc.pc = "read" => proc.answers = Len(PromptsIn(proc.out_lines))

\* C21: a run of a command never waits for an operator: from the loop reading
\* the output, where every line holding the confirmation marker is answered
\* with one "n" before the next line is read, the call always comes to its
\* end (the subprocess exited and run() returned, or run() raised).
C21_RunNeverWaitsForOperator ==
    (proc.pc = "read") ~> (proc.pc \in {"returned", "raised"})

----------------------------------------------------------------------------
(* C22 *)

\* The queue as a reader of the two files sees it
Persisted == load_queue_from_file(queue_file, queue_meta_file)

\* C22: when the directory of a task is missing, the build of that package is
\* given up and reported as failed, the pass goes on to the question whether
\* to continue with the remaining packages, and the queue files still hold
\* what they held.
C22_MissingDirectorySkipsPackage ==
    last.op = "missing_dir" =>
        /\ pc = "confirm"
        /\ failed_packages # << >>
        /\ Last(failed_packages) = last.task.display_name
        /\ Persisted.packages = queue_packages

----------------------------------------------------------------------------
(* C23 *)

\* The distro key the entry point that ran looked for
LookupKey ==
    CASE gbp.entry = "generate_gbp_conf" -> default_distro(gbp.in)
      [] gbp.entry = "_ensure_gbp_conf" -> tracks_distro_key(gbp.in)
      [] OTHER -> jazzy

\* The document holds a track table that is a mapping
HasTable == gbp.in.doc.t = "dict" /\ tracks_of(gbp.in.doc).t = "dict"

TableItems == tracks_of(gbp.in.doc).items

\* The items whose key equals the distro key ignoring case
ExactItems == {x \in DOMAIN TableItems : key_equals(TableItems[x], lower(LookupKey))}

\* The items whose key contains the distro key ignoring case
ContainingItems ==
    {x \in DOMAIN TableItems : key_contains(TableItems[x], lower(LookupKey))}

\* The look-up gave the value of one of the items xs
Chose(xs) ==
    /\ gbp.out.lookup.found
    /\ \E x \in xs : gbp.out.lookup.section = TableItems[x].v

\* C23: whichever entry point resolves the section, with a key of the track
\* table equal to the distro key ignoring case the look-up succeeds and gives
\* the section of such a key; a key that only contains the distro key is
\* chosen only when no key is equal ignoring case; with neither, the look-up
\* finds nothing and nothing is written for the package.
C23_LookupPrefersExactKey ==
    (gbp.pc = "done" /\ HasTable) =>
        /\ ExactItems # {} => Chose(ExactItems)
        /\ (ExactItems = {} /\ gbp.out.lookup.found) => Chose(ContainingItems)
        /\ (ExactItems = {} /\ ContainingItems = {}) =>
              (~gbp.out.lookup.found /\ ~gbp.out.written)

----------------------------------------------------------------------------
(* C24 *)

\* gbpconf_generator found a section and read the upstream information from it
ExtractedInfo ==
    gbp.pc = "done" /\ gbp.entry = "generate_gbp_conf" /\ gbp.out.lookup.found

\* The value of key in the section that was found, None when it has no such key
Field(key) == dict_get(gbp.out.lookup.section, <<key>>, YNone)

NonEmptyString(v) == v.t = "str" /\ v.s # << >>

\* A string that holds more than blanks
UsableString(v) == v.t = "str" /\ \E x \in DOMAIN v.s : v.s[x] # " "

\* s without the blanks at its ends and with "-" for each blank inside
Tidy(s) ==
    LET inner == {x \in DOMAIN s : s[x] # " "}
        from == CHOOSE x \in inner : \A y \in inner : x <= y
        to == CHOOSE x \in inner : \A y \in inner : y <= x
    IN  [x \in 1..(to - from + 1) |->
            IF s[from + x - 1] = " " THEN "-" ELSE s[from + x - 1]]

----------------------------------------------------------------------------
(* C25 *)

\* An entry point has written debian/gbp.conf
Written == gbp.pc = "done" /\ gbp.out.written

\* The text after "upstream-tag=" in the file
TagInFile == Tail(gbp.file[2])

\* C25: the upstream-tag in the file that was written is release/, the
\* resolved distro, /, the resolved package name, /, the resolved version, -,
\* the resolved release increment, and the tag pattern of the section
\* (release.tags or release_tag), if it has one, is not in the file.
C25_TagIsCanonical ==
    Written =>
        /\ gbp.file = gbp.out.file
        /\ Head(gbp.file[2]) = "upstream-tag="
        /\ TagInFile = <<"release", "/">> \o gbp.out.distro \o <<"/">> \o gbp.out.pkg_name
                          \o <<"/">> \o gbp.out.version \o <<"-">> \o gbp.out.release_inc
        /\ gbp.out.pkg_name # << >> /\ gbp.out.version # << >>
        /\ gbp.out.release_inc # << >>
        /\ gbp.out.lookup.found =>
              LET pattern == tag_pattern(gbp.out.lookup.section) IN
              pattern # << >> =>
                  \A x \in DOMAIN gbp.file : ~contains(pattern, gbp.file[x])

\* gbpconf_generator wrote the file for a section that has a tag pattern
C25_Witness ==
    /\ Written
    /\ gbp.entry = "generate_gbp_conf"
    /\ tag_pattern(gbp.out.lookup.section) = <<"release/", ":{", "version}">>
    /\ TagInFile = <<"release", "/", "J", "azzy", "/", "foo", " ", "/", "1.2.3", "-", "3">>

----------------------------------------------------------------------------
(* C26 *)

\* release_inc of the section the entry point found, None without a section
ReleaseIncField == IF gbp.out.lookup.found THEN Field("release_inc") ELSE YNone

\* A release_inc that is missing, empty or blank, or a placeholder
NoIncrement(v) ==
    \/ v.t = "none"
    \/ v.t = "str" /\ ~UsableString(v)
    \/ v.t = "str" /\ UsableString(v) /\ \E x \in DOMAIN v.s : v.s[x] = ":{"

\* The number a release_inc stands for: itself, or the one its digits denote
IncrementOf(v) ==
    IF v.t \in {"int", "float"} THEN v.n
    ELSE DigitValue[v.s[CHOOSE x \in DOMAIN v.s : v.s[x] # " "]]

\* text is a decimal numeral of n
DecimalOf(text, n) ==
    Len(text) = 1 /\ text[1] \in DOMAIN DigitValue /\ DigitValue[text[1]] = n

C26_WitnessTagPath ==
    /\ Written
    /\ gbp.entry = "generate_gbp_conf"
    /\ Field("release_inc") = YStr(<<":{", "release_inc}">>)
    /\ gbp.out.release_inc = <<"1">>

----------------------------------------------------------------------------
(* C27 *)

\* The descriptor is malformed: it cannot be parsed, its top level is no
\* mapping, its "tracks" is no mapping, or the value under the distro key is
\* no mapping
Malformed ==
    \/ gbp.in.doc.t \in {"error", "list"}
    \/ gbp.in.doc.t = "dict" /\ tracks_of(gbp.in.doc).t # "dict"
    \/ HasTable /\ \E x \in ExactItems : TableItems[x].v.t # "dict"

\* C27: with a malformed descriptor neither gbpconf_generator nor
\* _ensure_gbp_conf raises; no section is resolved, and debian/gbp.conf is
\* written with the default release increment of the path and the tree "tag".
C27_MalformedGivesDefaults ==
    (gbp.pc = "done" /\ gbp.entry # "parse_file" /\ Malformed) =>
        /\ ~gbp.out.raised
        /\ gbp.out.written
        /\ gbp.out.release_inc =
              IF gbp.entry = "_ensure_gbp_conf" THEN <<"0">> ELSE <<"1">>
        /\ gbp.file[3] = <<"upstream-tree=", "tag">>

----------------------------------------------------------------------------
(* C28 *)

\* The first of the values that is a string holding more than blanks, without
\* the blanks at its ends; "unknown" when there is none
RECURSIVE FirstUsable(_)
FirstUsable(values) ==
    IF values = << >> THEN <<"unknown">>
    ELSE IF UsableString(Head(values)) THEN Tidy(Head(values).s)
    ELSE FirstUsable(Tail(values))

\* version of the section that was found, when it can be used as a version
TrackVersion ==
    IF gbp.out.lookup.found /\ UsableString(Field("version"))
       /\ Head(Field("version").s) # ":{"
    THEN Tidy(Field("version").s)
    ELSE << >>

\* C28: the version in the tag is the version of the package's manifest if
\* that can be read, else the version of the section if it is not empty and
\* no placeholder, else "0.0.0"; the distro in the tag is the --distro
\* argument if it is not blank, else the first of $AGIROS_DISTRO,
\* $AGIROS_ROS_DISTRO, $ROS_DISTRO that is not blank, else "unknown".
C28_VersionAndDistroChains ==
    Written =>
        /\ gbp.out.version =
              IF gbp.in.manifest.t = "ok" THEN gbp.in.manifest.version
              ELSE IF TrackVersion # << >> THEN TrackVersion
              ELSE <<"0.0.0">>
        /\ gbp.out.distro =
              FirstUsable(<<gbp.in.cli_distro, gbp.in.env.AGIROS_DISTRO,
                            gbp.in.env.AGIROS_ROS_DISTRO, gbp.in.env.ROS_DISTRO>>)

----------------------------------------------------------------------------
(* C29 *)

\* release.tree of the section that was found, without the blanks at its
\* ends; empty when the section has none
SectionTree ==
    IF gbp.out.lookup.found /\ Field("release").t = "dict"
       /\ UsableString(dict_get(Field("release"), <<"tree">>, YNone))
    THEN Strip(dict_get(Field("release"), <<"tree">>, YNone).s)
    ELSE << >>

\* C29: the file that was written holds, whatever it held before, the line
\* [git-buildpackage], the line upstream-tag= with the computed tag and the
\* line upstream-tree= with release.tree of the section, or with "tag" when
\* the section has none, and nothing else.
C29_OverwriteWritesTagAndTree ==
    Written =>
        gbp.file = << <<"[git-buildpackage]">>,
                      <<"upstream-tag=">> \o gbp.out.upstream_tag,
                      <<"upstream-tree=">>
                          \o (IF SectionTree # << >> THEN SectionTree ELSE <<"tag">>) >>

\* Writing again with the same entry point and the same inputs leaves the
\* file as it is
C29_WritingTwiceChangesNothing ==
    [][(Written /\ gbp'.entry = gbp.entry) => gbp'.file = gbp.file]_vars

----------------------------------------------------------------------------
(* C30 *)

SameIdentity(t, u) == t.display_name = u.display_name /\ t.kind = u.kind

\* The tasks of the list that no later task of the list shares its identity
\* with
LaterEntries(tasks) ==
    {tasks[x] : x \in {y \in DOMAIN tasks :
                          \A z \in DOMAIN tasks : SameIdentity(tasks[y], tasks[z]) => z <= y}}

\* extra_args that the metadata file holds for the identity of task
PersistedExtraArgs(task) ==
    LET x == MetaIndex(queue_meta_file.entries, task.display_name)
        kinds == queue_meta_file.entries[x].kinds
    IN  kinds[KindIndex(kinds, task.kind)].extra_args

----------------------------------------------------------------------------
(* C31 *)

RECURSIVE FirstSeen(_, _)
\* The package names of the tasks, each once, in the order of its first task
FirstSeen(tasks, seen) ==
    IF tasks = << >> THEN << >>
    ELSE IF Head(tasks).display_name \in seen THEN FirstSeen(Tail(tasks), seen)
    ELSE <<Head(tasks).display_name>>
            \o FirstSeen(Tail(tasks), seen \cup {Head(tasks).display_name})

\* The names of the metadata object
MetaNames == {queue_meta_file.entries[x].name : x \in 1..Len(queue_meta_file.entries)}

\* The line file, the flags and the metadata object name the listed packages
\* and no other
OnlyListedPersisted ==
    /\ queue_file = write_queue_file(queue_packages, package_status)
    /\ Len(queue_file) = Len(queue_packages)
    /\ DOMAIN package_status = SeqToSet(queue_packages)
    /\ MetaNames = SeqToSet(queue_packages)


\* The listed packages that a task of the list names, in their listed order,
\* followed by the other package names of the tasks in first-seen order
KeptThenNew(packages, tasks) ==
    SelectSeq(packages, LAMBDA n : \E x \in DOMAIN tasks : tasks[x].display_name = n)
        \o FirstSeen(tasks, SeqToSet(packages))

----------------------------------------------------------------------------
(* C32 *)

\* The line file has a line in the JSON-object format of the older version
HasLegacyLine == \E x \in 1..Len(queue_file) : parse_line(queue_file[x]).legacy

\* The queue in memory
InMemory == [packages |-> queue_packages, status |-> package_status, tasks |-> build_queue]

\* What a save of the queue in memory writes
Resaved == save_queue(build_queue, queue_packages, package_status)

\* A line that is a package name, or a package name and the marker
PlainLine(line, packages) ==
    \E x \in 1..Len(packages) : line = packages[x] \/ line = packages[x] \o <<"#">>

\* C32: for a line file with lines in the legacy JSON-object format, the
\* queue that is loaded, then saved, then loaded again has the package
\* order, the completion flags and the tasks of the first load, and the line
\* file that the save writes has only lines name or name and marker, none in
\* the JSON-object format.
C32_LegacyMigrationKeepsQueue ==
    (Loaded /\ HasLegacyLine) =>
        /\ load_queue_from_file(Resaved.queue_file, Resaved.queue_meta_file) = InMemory
        /\ \A x \in 1..Len(Resaved.queue_file) :
              /\ PlainLine(Resaved.queue_file[x], queue_packages)
              /\ ~parse_line(Resaved.queue_file[x]).legacy

----------------------------------------------------------------------------
(* C33 *)

\* The debian output of the current subpackage is there and correct
DebianOutputValid(o) ==
    /\ o.control.exists
    /\ InText("Depends:", o.control.text)
    /\ ~InText("!nocheck", o.control.text)

\* The spec output of the current subpackage is there and correct
SpecOutputValid(o) ==
    /\ o.rpm.is_dir
    /\ o.rpm.specs # << >>
    /\ \A x \in DOMAIN o.rpm.specs : ~InText("!nocheck", o.rpm.specs[x])

UbuntuDue(o) == o.need.ubuntu /\ ~DebianOutputValid(o)

OpenEulerDue(o) == o.need.oe /\ ~SpecOutputValid(o)

\* The step takes up the next subpackage
TakesUpSubpackage == oob.pc = "pkg" /\ oob'.pc # "done" /\ oob'.todo = oob.todo - 1

\* The ubuntu generation of the subpackage has returned, with an exit code
UbuntuReturned ==
    /\ oob.pc = "ubuntu" /\ oob'.pc # "ubuntu"
    /\ ~(Len(fail_log') = Len(fail_log) + 1 /\ Last(fail_log').type = "exception")

\* C33: for each subpackage the ubuntu generation is invoked only if it is
\* required and the debian output is not valid (no control file, "!nocheck"
\* in it, or no "Depends:" in it), the openEuler generation only if it is
\* required and the spec output is not valid; a generation that is due is
\* invoked, ubuntu first, and the openEuler one when the ubuntu generation has
\* returned; a subpackage with nothing due has nothing invoked.
C33_ResumeSkipsValidOutputs ==
    [][/\ (oob'.pc = "ubuntu") => UbuntuDue(oob')
       /\ (oob'.pc = "search") => OpenEulerDue(oob')
       /\ TakesUpSubpackage =>
             /\ (oob'.pc = "ubuntu") <=> UbuntuDue(oob')
             /\ (oob'.pc = "search") <=> (~UbuntuDue(oob') /\ OpenEulerDue(oob'))
       /\ UbuntuReturned => ((oob'.pc = "search") <=> OpenEulerDue(oob))]_vars

\* The openEuler generation of a subpackage that needs both outputs is
\* invoked for a spec with "!nocheck" while its valid debian output is left
C33_Witness ==
    /\ oob.pc = "search"
    /\ oob.attempts # << >>
    /\ oob.need.ubuntu /\ oob.need.oe
    /\ oob.control = Control(<<"Source: x", "Depends:">>)
    /\ oob.rpm = RpmDir(<< <<"Name: x">>, <<"Name: y", "!nocheck">> >>)

----------------------------------------------------------------------------
(* C34 *)

\* C34: in every state that load, append, remove, execute and clear reach,
\* the keys of the completion-flag map are the listed packages, every listed
\* package has a task, and every task is of a listed package.
C34_MemoryStructuresAgree ==
    /\ DOMAIN package_status = SeqToSet(queue_packages)
    /\ \A x \in 1..Len(queue_packages) :
          \E y \in 1..Len(build_queue) : build_queue[y].display_name = queue_packages[x]
    /\ \A y \in 1..Len(build_queue) :
          build_queue[y].display_name \in SeqToSet(queue_packages)

\* A package was removed from a queue of two, after a pass that completed
\* the package that stays
C34_Witness ==
    /\ pc = "menu"
    /\ last.op = "remove"
    /\ Len(queue_packages) = 1
    /\ package_status[queue_packages[1]]
    /\ Len(build_queue) >= 1

----------------------------------------------------------------------------
(* C35 *)

\* C35: after an append has saved the queue, a load of the files gives for
\* every task in memory a task of the same (display_name, kind) with the same
\* path and the same extra_args.
C35_ReloadKeepsEveryTask ==
    (pc = "menu" /\ last.op \in AppendOps) =>
        \A x \in 1..Len(build_queue) :
            \E y \in 1..Len(Persisted.tasks) : Persisted.tasks[y] = build_queue[x]

----------------------------------------------------------------------------
(* C36 *)

\* The packages that the metadata file has an entry for and the line file
\* has no line for
OnlyInMetadata ==
    {MetaEntries[x].name : x \in 1..Len(MetaEntries)} \ NamesInLineFile

\* C36: after a load, a package with a metadata entry and no line in the
\* line file is not listed, has no task and no flag, and the metadata file
\* that a save of the loaded queue writes has no entry for it.
C36_MetadataOnlyPackageIsDropped ==
    Loaded =>
        \A n \in OnlyInMetadata :
            /\ n \notin SeqToSet(queue_packages)
            /\ n \notin DOMAIN package_status
            /\ \A x \in 1..Len(build_queue) : build_queue[x].display_name # n
            /\ \A x \in 1..Len(Resaved.queue_meta_file.entries) :
                  Resaved.queue_meta_file.entries[x].name # n

\* The line file lists a, the metadata file has entries for a and b
C36_Witness ==
    /\ Loaded
    /\ OnlyInMetadata = {NameB}
    /\ queue_packages = <<NameA>>
    /\ Len(build_queue) = 2

----------------------------------------------------------------------------
(* C37 *)

\* C37: when the operator has declined to continue after a failure, the pass
\* has saved the queue before it returned: the line of every package whose
\* tasks all succeeded in this pass is its name with the completion marker,
\* and the line of the failed package is its name without it.
C37_DeclinedPassIsPersisted ==
    (PassEnded /\ aborted) =>
        /\ Len(queue_file) = Len(queue_packages)
        /\ \A x \in 1..Len(queue_packages) :
              (Attempted(queue_packages[x]) /\ AllTasksSucceeded(queue_packages[x])) =>
                  queue_file[x] = queue_packages[x] \o <<"#">>
        /\ failed_packages # << >>
        /\ queue_file[PositionOf(Last(failed_packages))] = Last(failed_packages)

\* The operator declined after the second package failed; the first had
\* succeeded in the same pass
C37_Witness ==
    /\ PassEnded /\ aborted
    /\ Len(queue_packages) = 2
    /\ Attempted(queue_packages[1]) /\ AllTasksSucceeded(queue_packages[1])
    /\ ~StatusGet(start_status, queue_packages[1])
    /\ Last(failed_packages) = queue_packages[2]

----------------------------------------------------------------------------
(* C38: the build-with-retry loop of a debian or rpm task *)

\* The call is inside the loop around the build script
InRetryLoop == build.script /\ build.pc \in {"script", "check", "ask", "chosen", "repair"}

\* The call returns with this step
BuildReturns == build.pc # "returned" /\ build'.pc = "returned"

\* The script has just exited zero, or the operator has just chosen to stop
ScriptSucceededOrOperatorStops ==
    \/ build.pc = "check" /\ build.rc = 0
    \/ build.pc = "chosen" /\ build.action # RetryChoice

\* Success is reported only right after a run of the script that exited zero
SuccessOnlyOfScript ==
    (BuildReturns /\ build.script /\ build'.result = 0)
        => (build.pc = "check" /\ build.rc = 0)

\* A non-zero exit code is reported only after the operator chose not to
\* retry, and it is the one of the last run of the script
FailureOnlyAfterStop ==
    (BuildReturns /\ build.script /\ build'.result # 0)
        => (build.pc = "chosen" /\ build.action # RetryChoice
            /\ build'.result = build.rc /\ build.rc # 0)

\* After the choice to retry the script is run again: at once when no command
\* was entered, after the repair command otherwise
RetryRunsScriptAgain ==
    /\ (build.pc = "chosen" /\ build.action = RetryChoice)
           => build'.pc \in {"chosen", "script", "repair"}
    /\ build.pc = "repair" => build'.pc \in {"repair", "script"}
    /\ (build.pc = "script" /\ build.script) => build'.pc \in {"script", "check"}

\* C38: with a build script, the loop reports success only if the last run of
\* the script exited zero (the exit code of a repair command never counts),
\* reports the non-zero exit code of the script only after the operator chose
\* to stop, runs the script again after every choice to retry, and returns
\* provided the script succeeds or the operator chooses to stop
C38_RetryLoopReportsTheScript ==
    /\ [][SuccessOnlyOfScript /\ FailureOnlyAfterStop /\ RetryRunsScriptAgain]_vars
    /\ []((InRetryLoop /\ <>ScriptSucceededOrOperatorStops) => <>(build.pc = "returned"))

\* The script succeeded after a retry with a repair command that failed
C38_Witness ==
    /\ build.pc = "returned" /\ build.script
    /\ build.result = 0 /\ build.retries >= 1 /\ build.repair_rc = 1

\* Without the proviso the loop need not return: the operator may retry forever
C38_AlwaysReturns == InRetryLoop ~> (build.pc = "returned")

----------------------------------------------------------------------------
(* C39: a failure never stops the batch of the procedural builder *)

\* main() is inside the loop over the packages
InBatch == oob.pc \in {"pkg", "ubuntu", "search"}

\* The ubuntu generation of a subpackage that also needs openEuler returns
\* with this step
UbuntuOfBothReturns == oob.pc = "ubuntu" /\ oob.need_oe /\ oob'.pc # "ubuntu"

\* The step has written the record of an exception
ExceptionLogged ==
    /\ Len(fail_log') = Len(fail_log) + 1
    /\ fail_log'[Len(fail_log')].type = "exception"

\* The packages are taken one by one, and main() ends only after the last
NoPackageLeftOut ==
    /\ InBatch => (oob'.pc = "done" \/ oob'.todo \in {oob.todo, oob.todo - 1})
    /\ (InBatch /\ oob'.pc = "done") => oob.todo = 0

\* After the ubuntu generation, failed or not, the openEuler search of the
\* same subpackage follows
SearchFollowsUbuntu == UbuntuOfBothReturns => oob'.pc = "search"

\* C39: a failure never stops the batch: after a non-zero exit or an exception
\* every later package is still processed, a failed ubuntu generation does
\* not prevent the openEuler search for the same subpackage, and the run
\* always reaches the end of the package list
C39_FailureNeverStopsBatch ==
    /\ [][NoPackageLeftOut /\ SearchFollowsUbuntu]_vars
    /\ InBatch ~> (oob.pc = "done")

\* What holds: no package is left out, the search follows an ubuntu generation
\* that exits, zero or not, and the batch reaches its end
C39_ExitCodeNeverStopsBatch ==
    /\ [][NoPackageLeftOut /\ (ExceptionLogged \/ SearchFollowsUbuntu)]_vars
    /\ InBatch ~> (oob.pc = "done")

\* An exception of the ubuntu generation ends the subpackage without search
C39_ExceptionSkipsSearch ==
    [][(UbuntuOfBothReturns /\ ExceptionLogged) => oob'.pc = "pkg"]_vars

----------------------------------------------------------------------------
(* C40: the line of a package, written and read back *)

\* The line _write_queue_file writes for (name, completed), read by the loop
\* of load_queue_from_file
ReadBack(name, completed) ==
    parse_line(write_queue_file(<<name>>, StatusPut(EmptyStatus, name, completed))[1])

\* The line gives back the name and the flag it was written for
RoundTrips(name, completed) ==
    LET p == ReadBack(name, completed) IN
    ~p.skip /\ p.name = name /\ p.completed = completed

\* C40: the line written by save for (name, completed) is parsed by load back
\* to the same name and the same completed flag, for every package name in the
\* queue, including names that end with "#"
C40_LineRoundTrips ==
    [][queue_file' # queue_file =>
        /\ Len(queue_file') = Len(queue_packages')
        /\ \A x \in DOMAIN queue_packages' :
            /\ queue_file'[x]
                 = write_queue_file(<<queue_packages'[x]>>, package_status')[1]
            /\ RoundTrips(queue_packages'[x],
                          StatusGet(package_status', queue_packages'[x]))]_vars

\* What holds: the lines written are those of the packages in memory, and
\* the line of a name that does not end with "#" gives back name and flag
C40_PlainNameRoundTrips ==
    [][queue_file' # queue_file =>
        /\ Len(queue_file') = Len(queue_packages')
        /\ \A x \in DOMAIN queue_packages' :
            /\ queue_file'[x]
                 = write_queue_file(<<queue_packages'[x]>>, package_status')[1]
            /\ Last(queue_packages'[x]) # "#"
                 => RoundTrips(queue_packages'[x],
                               StatusGet(package_status', queue_packages'[x]))]_vars

\* A directory whose name is the text of a JSON object with a name
BraceName == <<"{", "name=b", "}">>

\* The line of such a name, not completed, is read as a legacy line of the
\* name inside the object; with the marker behind it the line is a plain one
C40_BraceNameReadAsLegacy ==
    /\ LET p == ReadBack(BraceName, FALSE) IN p.legacy /\ p.name = NameB /\ ~p.completed
    /\ RoundTrips(BraceName, TRUE)


====
